---------------------------- MODULE Spec2Model ----------------------------
(***************************************************************************)
(* Model of the CntxtJV knowledge-graph generator (src/CntxtJV.py and      *)
(* src/regex_components/*.py).                                             *)
(*                                                                         *)
(* State: the networkx DiGraph (node table, edge table), the statistics    *)
(* dictionary, the walk over the directory tree and the position inside    *)
(* the file being processed.                                               *)
(*                                                                         *)
(* Lexical abstraction: a Java source text is a sequence of symbols.  A    *)
(* symbol is either one character that the block scanner inspects          *)
(* (<<"ch", c>>), a run of other text (<<"txt", w>>), or the text matched   *)
(* by one of the extractors' regular expressions, carrying the groups the  *)
(* expression captures.  A class or method head stands for the text the    *)
(* pattern matches up to, not including, its final brace: the pattern      *)
(* matches where the head is directly followed by <<"ch", "{">>.  A URL     *)
(* symbol stands for the text of a URL: the block scanner and the          *)
(* single-line comment pattern both see its two slashes.                   *)
(*                                                                         *)
(* A file's _add_* calls run one per step (AddCall), in the order          *)
(* _process_file_contents makes them; the files of a tree are reached in   *)
(* any order os.walk can produce.                                          *)
(*                                                                         *)
(* Specifications: Spec is one run of the analyser over a tree;            *)
(* TwoRunsSpec lets a second, independent run over the same tree follow    *)
(* it; EdgeStoreSpec applies graph.add_edge on its own; ScannerSpec runs   *)
(* the loop of _extract_block_content over short texts; InterruptSpec is  *)
(* Spec with a KeyboardInterrupt that may arrive at any step;              *)
(* StatementSpec processes one source file that holds one statement.       *)
(***************************************************************************)
EXTENDS Integers, Sequences, FiniteSets, TLC

VARIABLES
    nodes,           \* graph._node: node key -> attribute record
    edges,           \* graph._adj: <<source, target>> -> relation
    stats,           \* self.stats
    files_processed, \* self.files_processed
    analyzed_files,  \* self.analyzed_files
    tree,            \* the files os.walk will yield (the input)
    visited,         \* files the loop of _process_codebase has reached
    cur,             \* file node of the Java file whose contents are being processed, or NoFile
    pending,         \* the _add_* calls of _process_file_contents still to run for cur
    hashseed,        \* the per-process seed of Python's str hash
    output_file,     \* java_code_knowledge_graph.json as the last save_graph left it
    lastcall,        \* the call that ran last (observation only)
    source,          \* the text handed to _extract_block_content
    pos,             \* position of the character its loop reads next
    scan,            \* the loop's local variables, and whether it has returned
    interrupted      \* whether a KeyboardInterrupt has ended the run

vars == <<nodes, edges, stats, files_processed, analyzed_files, tree, visited,
          cur, pending, hashseed, output_file, lastcall, source, pos, scan, interrupted>>

(***************************************************************************)
(* Bounds                                                                  *)
(***************************************************************************)
MaxFiles == 3        \* files in one directory tree
HashSeeds == 2       \* distinct hash seeds considered

NoFile == "<none>"

(***************************************************************************)
(* Strings                                                                 *)
(***************************************************************************)
CharAt(s, i) == SubSeq(s, i, i)

StartsWith(s, p) == Len(s) >= Len(p) /\ SubSeq(s, 1, Len(p)) = p

EndsWith(s, p) == Len(s) >= Len(p) /\ SubSeq(s, Len(s) - Len(p) + 1, Len(s)) = p

LowerChars == {"a","b","c","d","e","f","g","h","i","j","k","l","m",
               "n","o","p","q","r","s","t","u","v","w","x","y","z"}
UpperChars == {"A","B","C","D","E","F","G","H","I","J","K","L","M",
               "N","O","P","Q","R","S","T","U","V","W","X","Y","Z"}
DigitChars == {"0","1","2","3","4","5","6","7","8","9"}
\* the capital I with a dot above (U+0130), which a TLA+ string literal
\* cannot hold.  re.IGNORECASE lets it match the letter i of a pattern, and
\* str.upper leaves it as it is.
DottedI == "#"

WordChars == LowerChars \cup UpperChars \cup DigitChars \cup {"_", DottedI}

LowerOf(c) ==
    CASE c = "A" -> "a" [] c = "B" -> "b" [] c = "C" -> "c" [] c = "D" -> "d"
      [] c = "E" -> "e" [] c = "F" -> "f" [] c = "G" -> "g" [] c = "H" -> "h"
      [] c = "I" -> "i" [] c = "J" -> "j" [] c = "K" -> "k" [] c = "L" -> "l"
      [] c = "M" -> "m" [] c = "N" -> "n" [] c = "O" -> "o" [] c = "P" -> "p"
      [] c = "Q" -> "q" [] c = "R" -> "r" [] c = "S" -> "s" [] c = "T" -> "t"
      [] c = "U" -> "u" [] c = "V" -> "v" [] c = "W" -> "w" [] c = "X" -> "x"
      [] c = "Y" -> "y" [] c = "Z" -> "z" [] OTHER -> c

UpperOf(c) ==
    CASE c = "a" -> "A" [] c = "b" -> "B" [] c = "c" -> "C" [] c = "d" -> "D"
      [] c = "e" -> "E" [] c = "f" -> "F" [] c = "g" -> "G" [] c = "h" -> "H"
      [] c = "i" -> "I" [] c = "j" -> "J" [] c = "k" -> "K" [] c = "l" -> "L"
      [] c = "m" -> "M" [] c = "n" -> "N" [] c = "o" -> "O" [] c = "p" -> "P"
      [] c = "q" -> "Q" [] c = "r" -> "R" [] c = "s" -> "S" [] c = "t" -> "T"
      [] c = "u" -> "U" [] c = "v" -> "V" [] c = "w" -> "W" [] c = "x" -> "X"
      [] c = "y" -> "Y" [] c = "z" -> "Z" [] OTHER -> c

RECURSIVE StrLower(_)
StrLower(s) == IF s = "" THEN "" ELSE LowerOf(CharAt(s, 1)) \o StrLower(SubSeq(s, 2, Len(s)))

RECURSIVE StrUpper(_)
StrUpper(s) == IF s = "" THEN "" ELSE UpperOf(CharAt(s, 1)) \o StrUpper(SubSeq(s, 2, Len(s)))

\* str.capitalize(): first character upper case, the rest lower case
Capitalize(s) ==
    IF s = "" THEN "" ELSE UpperOf(CharAt(s, 1)) \o StrLower(SubSeq(s, 2, Len(s)))

\* os.path.splitext(os.path.basename(p))[0]
RECURSIVE LastIndexOf(_, _, _)
LastIndexOf(s, c, i) ==
    IF i = 0 THEN 0 ELSE IF CharAt(s, i) = c THEN i ELSE LastIndexOf(s, c, i - 1)

BaseName(p) == SubSeq(p, LastIndexOf(p, "/", Len(p)) + 1, Len(p))

RECURSIVE LeadingDots(_, _)
LeadingDots(s, i) == IF i <= Len(s) /\ CharAt(s, i) = "." THEN LeadingDots(s, i + 1) ELSE i - 1

SplitExtRoot(b) ==
    LET d == LastIndexOf(b, ".", Len(b))
    IN  IF d > LeadingDots(b, 1) THEN SubSeq(b, 1, d - 1) ELSE b

\* Python's hash() of a str: a function of the text and of the per-process
\* seed; the empty string hashes to 0 under every seed
PyHash(text) ==
    IF text = "" THEN "0" ELSE "h" \o ToString(hashseed) \o "<" \o text \o ">"

RECURSIVE Flatten(_)
Flatten(ss) == IF ss = <<>> THEN <<>> ELSE Head(ss) \o Flatten(Tail(ss))

RECURSIVE JoinStr(_, _)
JoinStr(ss, sep) ==
    IF ss = <<>> THEN ""
    ELSE IF Len(ss) = 1 THEN ss[1] ELSE ss[1] \o sep \o JoinStr(Tail(ss), sep)

(***************************************************************************)
(* Source symbols                                                          *)
(***************************************************************************)
Ch(c) == <<"ch", c>>
Txt(w) == <<"txt", w>>
PackageDecl(n) == <<"package", n>>
ImportDecl(n) == <<"import", n>>
ClassHead(annots, mods, kw, name) == <<"classhead", annots, mods, kw, name>>
Param(type, name) == [name |-> name, type |-> type, annotations |-> <<>>]
MethodHead(annots, mods, rtype, name, params) == <<"methodhead", annots, mods, rtype, name, params>>
LogCall(recv, level, msg) == <<"log", recv, level, msg>>
Url(u) == <<"url", u>>
VersionTag(kind, text, value) == <<"version", kind, text, value>>
GetString(key) == <<"getString", key>>

\* the grave accent, which a TLA+ string literal cannot hold
BackTick == "<grave>"

IsCh(sym, c) == sym[1] = "ch" /\ sym[2] = c

\* the character the block scanner sees; text that is not a single character
\* symbol holds none of the characters the scanner reacts to
CharOf(sym) == IF sym[1] = "ch" THEN sym[2] ELSE ""

ConcatStr(ss) == JoinStr(ss, "")

AnnotText(annots) == ConcatStr([i \in 1..Len(annots) |-> "@" \o annots[i] \o " "])
ModText(mods) == ConcatStr([i \in 1..Len(mods) |-> mods[i] \o " "])
ParamText(params) == JoinStr([i \in 1..Len(params) |-> params[i].type \o " " \o params[i].name], ", ")

\* the source text a symbol stands for
TextOf(sym) ==
    CASE sym[1] = "ch" -> sym[2]
      [] sym[1] = "txt" -> sym[2]
      [] sym[1] = "package" -> "package " \o sym[2] \o ";"
      [] sym[1] = "import" -> "import " \o sym[2] \o ";"
      [] sym[1] = "classhead" -> AnnotText(sym[2]) \o ModText(sym[3]) \o sym[4] \o " " \o sym[5] \o " "
      [] sym[1] = "methodhead" ->
            AnnotText(sym[2]) \o ModText(sym[3]) \o sym[4] \o " " \o sym[5]
                \o "(" \o ParamText(sym[6]) \o ") "
      [] sym[1] = "log" ->
            sym[2] \o "." \o sym[3] \o (IF StrLower(sym[3]) \in {"out", "err"} THEN ".println" ELSE "")
                \o "(" \o sym[4] \o ")"
      [] sym[1] = "url" -> sym[2]
      [] sym[1] = "version" -> sym[3]
      [] sym[1] = "getString" -> "getString(\"" \o sym[2] \o "\")"

(***************************************************************************)
(* CodeIdentifierExtractor                                                 *)
(***************************************************************************)
ScanInit ==
    [depth |-> 0, in_string |-> FALSE, in_char |-> FALSE, in_comment |-> FALSE,
     string_char |-> "", start_pos |-> 0]

\* one iteration of the loop of _extract_block_content, for the symbol at i;
\* the result carries done = TRUE when the loop returns a block at i
ScanChar(content, i, st) ==
    LET c == CharOf(content[i])
        idle == [st |-> st, done |-> FALSE]
    IN  IF content[i][1] = "url" THEN
            \* the two slashes of the literal, then text without effect
            IF ~st.in_string /\ ~st.in_char /\ ~st.in_comment
            THEN [st |-> [st EXCEPT !.in_comment = TRUE], done |-> FALSE]
            ELSE idle
        ELSE IF c \in {"\"", "'"} THEN
            IF ~st.in_comment /\ ~st.in_char THEN
                IF ~st.in_string
                THEN [st |-> [st EXCEPT !.in_string = TRUE, !.string_char = c], done |-> FALSE]
                ELSE IF st.string_char = c
                     THEN [st |-> [st EXCEPT !.in_string = FALSE], done |-> FALSE]
                     ELSE idle
            ELSE idle
        ELSE IF c = BackTick THEN
            IF ~st.in_comment /\ ~st.in_string
            THEN [st |-> [st EXCEPT !.in_char = ~st.in_char], done |-> FALSE]
            ELSE idle
        ELSE IF c = "/" /\ i < Len(content) THEN
            IF ~st.in_string /\ ~st.in_char /\ ~st.in_comment /\ CharOf(content[i + 1]) = "/"
            THEN [st |-> [st EXCEPT !.in_comment = TRUE], done |-> FALSE]
            ELSE idle
        ELSE IF c = "\n" THEN
            [st |-> [st EXCEPT !.in_comment = FALSE], done |-> FALSE]
        ELSE IF ~st.in_string /\ ~st.in_char /\ ~st.in_comment THEN
            IF c = "{" THEN
                [st |-> [st EXCEPT !.depth = st.depth + 1,
                                   !.start_pos = IF st.depth + 1 = 1 THEN i ELSE st.start_pos],
                 done |-> FALSE]
            ELSE IF c = "}" THEN
                [st |-> [st EXCEPT !.depth = st.depth - 1],
                 done |-> (st.depth - 1 = 0 /\ st.start_pos # 0)]
            ELSE idle
        ELSE idle

\* a scanner that hands back the block at the first closing brace, whatever
\* the depth
RECURSIVE ScanFromToFirstClose(_, _, _)
ScanFromToFirstClose(content, i, st) ==
    IF i > Len(content) THEN <<>>
    ELSE LET r == ScanChar(content, i, st)
         IN  IF CharOf(content[i]) = "}" /\ st.start_pos # 0
             THEN SubSeq(content, st.start_pos + 1, i - 1)
             ELSE ScanFromToFirstClose(content, i + 1, r.st)

RECURSIVE ScanFrom(_, _, _)
ScanFrom(content, i, st) ==
    IF i > Len(content) THEN <<>>
    ELSE LET r == ScanChar(content, i, st)
         IN  IF r.done THEN SubSeq(content, st.start_pos + 1, i - 1)
             ELSE ScanFrom(content, i + 1, r.st)

\* the loop runs off the end of the text without returning
RECURSIVE RunsOff(_, _, _)
RunsOff(content, i, st) ==
    IF i > Len(content) THEN TRUE
    ELSE LET r == ScanChar(content, i, st)
         IN  IF r.done THEN FALSE ELSE RunsOff(content, i + 1, r.st)

\* a scanner that hands back the rest of the text when no brace closes
ExtractBlockContentToTheEnd(content) ==
    IF RunsOff(content, 1, ScanInit) THEN content ELSE ScanFrom(content, 1, ScanInit)

\* _extract_block_content: the symbols between the first brace and its match,
\* or the empty sequence when the loop runs off the end
ExtractBlockContent(content) == ScanFrom(content, 1, ScanInit)

\* positions where a pattern that ends in a brace matches: a head directly
\* followed by the brace
HeadMatches(content, tag) ==
    SelectSeq([i \in 1..Len(content) |-> i],
              LAMBDA i : content[i][1] = tag /\ i < Len(content) /\ IsCh(content[i + 1], "{"))

ExtractMethods(content, class_name) ==
    LET ms == HeadMatches(content, "methodhead")
    IN  [k \in 1..Len(ms) |->
            LET h == content[ms[k]]
            IN  [name |-> h[5],
                 return_type |-> h[4],
                 parameters |-> h[6],
                 annotations |-> h[2],
                 modifiers |-> h[3],
                 is_constructor |-> (h[5] = class_name)]]

ExtractClasses(content) ==
    LET cs == HeadMatches(content, "classhead")
    IN  [k \in 1..Len(cs) |->
            LET h == content[cs[k]]
                class_block == ExtractBlockContent(SubSeq(content, cs[k] + 1, Len(content)))
            IN  [name |-> h[5],
                 type |-> StrUpper(h[4]),
                 annotations |-> h[2],
                 modifiers |-> h[3],
                 methods |-> ExtractMethods(class_block, h[5])]]

\* str() of an ElementType member
ElementTypeStr(member) == "ElementType." \o member

(***************************************************************************)
(* String scanning used by the pattern extractors                          *)
(***************************************************************************)
RECURSIVE IndexOf(_, _, _)
\* first position >= i where sub occurs in s, or 0
IndexOf(s, sub, i) ==
    IF i + Len(sub) - 1 > Len(s) THEN 0
    ELSE IF SubSeq(s, i, i + Len(sub) - 1) = sub THEN i
    ELSE IndexOf(s, sub, i + 1)

Contains(s, sub) == IndexOf(s, sub, 1) # 0

RECURSIVE ReplaceAll(_, _, _)
ReplaceAll(s, old, new) ==
    LET k == IndexOf(s, old, 1)
    IN  IF k = 0 THEN s
        ELSE SubSeq(s, 1, k - 1) \o new \o ReplaceAll(SubSeq(s, k + Len(old), Len(s)), old, new)

RECURSIVE Split(_, _)
Split(s, sep) ==
    LET k == IndexOf(s, sep, 1)
    IN  IF k = 0 THEN <<s>>
        ELSE <<SubSeq(s, 1, k - 1)>> \o Split(SubSeq(s, k + Len(sep), Len(s)), sep)

SpaceChars == {" ", "\n", "\t"}

RECURSIVE LStrip(_)
LStrip(s) == IF s # "" /\ CharAt(s, 1) \in SpaceChars THEN LStrip(SubSeq(s, 2, Len(s))) ELSE s

RECURSIVE RStrip(_)
RStrip(s) == IF s # "" /\ CharAt(s, Len(s)) \in SpaceChars THEN RStrip(SubSeq(s, 1, Len(s) - 1)) ELSE s

Strip(s) == LStrip(RStrip(s))

RECURSIVE CollapseSpace(_)
\* re.sub(r'\s+', ' ', s)
CollapseSpace(s) ==
    IF s = "" THEN ""
    ELSE IF CharAt(s, 1) \in SpaceChars
         THEN " " \o CollapseSpace(LStrip(s))
         ELSE CharAt(s, 1) \o CollapseSpace(SubSeq(s, 2, Len(s)))

RECURSIVE WordEnd(_, _)
\* last position of the run of word characters that starts at i
WordEnd(s, i) == IF i < Len(s) /\ CharAt(s, i + 1) \in WordChars THEN WordEnd(s, i + 1) ELSE i

RECURSIVE Words(_, _)
\* the maximal runs of word characters of s from position i on
Words(s, i) ==
    IF i > Len(s) THEN <<>>
    ELSE IF CharAt(s, i) \in WordChars
         THEN <<SubSeq(s, i, WordEnd(s, i))>> \o Words(s, WordEnd(s, i) + 1)
         ELSE Words(s, i + 1)

AllIn(s, set) == \A k \in 1..Len(s) : CharAt(s, k) \in set

(***************************************************************************)
(* ConfigFileParser.extract_package, DependencyMapper.extract_imports      *)
(***************************************************************************)
PyNone == "<None>"

\* str.format of a value that may be None
Fmt(v) == IF v = PyNone THEN "None" ELSE v

SymbolsOf(content, tag) == SelectSeq(content, LAMBDA sym : sym[1] = tag)

ExtractPackage(content) ==
    LET ps == SymbolsOf(content, "package")
    IN  IF ps = <<>> THEN PyNone ELSE ps[1][2]

ExtractImports(content) ==
    LET is == SymbolsOf(content, "import")
    IN  [k \in 1..Len(is) |-> is[k][2]]

(***************************************************************************)
(* CommentProcessor.extract_comments                                       *)
(* Inside a comment the characters / and * stand only in comment markers.  *)
(***************************************************************************)
RECURSIVE FindClose(_, _)
\* first position >= j where "*/" starts, or 0
FindClose(content, j) ==
    IF j >= Len(content) THEN 0
    ELSE IF IsCh(content[j], "*") /\ IsCh(content[j + 1], "/") THEN j
    ELSE FindClose(content, j + 1)

RECURSIVE LineEnd(_, _)
\* last position of the line that holds position i
LineEnd(content, i) ==
    IF i >= Len(content) THEN Len(content)
    ELSE IF IsCh(content[i + 1], "\n") THEN i ELSE LineEnd(content, i + 1)

IsJavadocOpen(content, i) ==
    i + 2 <= Len(content) /\ IsCh(content[i], "/") /\ IsCh(content[i + 1], "*")
        /\ IsCh(content[i + 2], "*")

IsBlockOpen(content, i) ==
    i + 1 <= Len(content) /\ IsCh(content[i], "/") /\ IsCh(content[i + 1], "*")
        /\ ~(i + 2 <= Len(content) /\ IsCh(content[i + 2], "*"))

\* "//" stands in two slash characters or inside a URL literal
IsLineOpen(content, i) ==
    \/ i + 1 <= Len(content) /\ IsCh(content[i], "/") /\ IsCh(content[i + 1], "/")
    \/ content[i][1] = "url"

RECURSIVE CommentSpans(_, _, _)
\* finditer of one comment pattern: the spans <<first, last>> it matches from i on
CommentSpans(content, shape, i) ==
    IF i > Len(content) THEN <<>>
    ELSE LET last == CASE shape = "javadoc" ->
                            IF IsJavadocOpen(content, i) /\ FindClose(content, i + 3) # 0
                            THEN FindClose(content, i + 3) + 1 ELSE 0
                       [] shape = "multi_line" ->
                            IF IsBlockOpen(content, i) /\ FindClose(content, i + 2) # 0
                            THEN FindClose(content, i + 2) + 1 ELSE 0
                       [] shape = "single_line" ->
                            IF IsLineOpen(content, i) THEN LineEnd(content, i) ELSE 0
         IN  IF last = 0 THEN CommentSpans(content, shape, i + 1)
             ELSE <<<<i, last>>>> \o CommentSpans(content, shape, last + 1)

\* the text of the k-th symbol of a match; a match that starts inside a URL
\* literal starts at the literal's two slashes
MatchedText(content, span, k) ==
    LET sym == content[span[1] + k - 1]
    IN  IF k = 1 /\ sym[1] = "url"
        THEN SubSeq(sym[2], IndexOf(sym[2], "//", 1), Len(sym[2]))
        ELSE TextOf(sym)

SpanText(content, span) ==
    ConcatStr([k \in 1..(span[2] - span[1] + 1) |-> MatchedText(content, span, k)])

\* _clean_comment
CleanComment(content, span) ==
    LET kept == SelectSeq([k \in 1..(span[2] - span[1] + 1) |-> k],
                          LAMBDA k : ~IsCh(content[span[1] + k - 1], "/")
                                        /\ ~IsCh(content[span[1] + k - 1], "*"))
        text(k) == IF k = 1 /\ content[span[1]][1] = "url"
                   THEN SubSeq(MatchedText(content, span, 1), 3, Len(MatchedText(content, span, 1)))
                   ELSE TextOf(content[span[1] + k - 1])
    IN  Strip(CollapseSpace(ConcatStr([j \in 1..Len(kept) |-> text(kept[j])])))

LineNumber(content, i) ==
    Len(SelectSeq(SubSeq(content, 1, i - 1), LAMBDA sym : IsCh(sym, "\n"))) + 1

ElementModifiers ==
    {"public", "private", "protected", "static", "final", "native", "synchronized",
     "abstract", "transient"}

RECURSIVE AssociatedElement(_)
\* element_pattern.search over the text after a Javadoc comment: a modifier
\* word, a type word and the captured name, each separated by white space
AssociatedElement(ws) ==
    IF Len(ws) < 3 THEN PyNone
    ELSE IF \E m \in ElementModifiers : EndsWith(ws[1], m) THEN ws[3]
    ELSE AssociatedElement(Tail(ws))

\* the white-space separated words of a symbol's text
SymWords(sym) ==
    IF sym[1] \in {"classhead", "methodhead"} THEN sym[3] \o <<sym[4], sym[5]>>
    ELSE IF sym[1] = "txt" THEN Words(sym[2], 1)
    ELSE <<>>

RECURSIVE ElementAfter(_, _)
ElementAfter(content, i) ==
    IF i > Len(content) THEN PyNone
    ELSE IF AssociatedElement(SymWords(content[i])) # PyNone
         THEN AssociatedElement(SymWords(content[i]))
         ELSE ElementAfter(content, i + 1)

\* _extract_javadoc_tags: the @name tokens of the comment
JavadocTags(content, span) ==
    LET tagged == SelectSeq(SubSeq(content, span[1], span[2]), LAMBDA sym : sym[1] = "version")
    IN  [k \in 1..Len(tagged) |-> Words(tagged[k][3], 1)[1]]

CommentInfo(content, shape, span) ==
    LET text == SpanText(content, span)
        todo == Contains(StrUpper(text), "TODO")
        fixme == Contains(StrUpper(text), "FIXME")
    IN  [type |-> IF shape = "javadoc" THEN "javadoc"
                  ELSE IF todo THEN "todo" ELSE IF fixme THEN "fixme" ELSE shape,
         content |-> CleanComment(content, span),
         line_number |-> LineNumber(content, span[1]),
         associated_element |-> IF shape = "javadoc" THEN ElementAfter(content, span[2] + 1)
                                ELSE PyNone,
         tags |-> IF shape = "javadoc" THEN JavadocTags(content, span)
                  ELSE IF todo THEN <<"TODO">> ELSE IF fixme THEN <<"FIXME">> ELSE <<>>]

RECURSIVE InsertByLine(_, _)
InsertByLine(sorted, c) ==
    IF sorted = <<>> THEN <<c>>
    ELSE IF c.line_number < Head(sorted).line_number THEN <<c>> \o sorted
    ELSE <<Head(sorted)>> \o InsertByLine(Tail(sorted), c)

RECURSIVE SortByLine(_)
\* sorted(comments, key=line_number), which keeps equal keys in order
SortByLine(cs) ==
    IF cs = <<>> THEN <<>>
    ELSE InsertByLine(SortByLine(SubSeq(cs, 1, Len(cs) - 1)), cs[Len(cs)])

CommentsOfShape(content, shape) ==
    LET spans == CommentSpans(content, shape, 1)
    IN  [k \in 1..Len(spans) |-> CommentInfo(content, shape, spans[k])]

ExtractComments(content) ==
    SortByLine(CommentsOfShape(content, "javadoc") \o CommentsOfShape(content, "multi_line")
                   \o CommentsOfShape(content, "single_line"))


(***************************************************************************)
(* LoggingAnalyzer                                                         *)
(***************************************************************************)
LogFrameworks == <<"log4j", "slf4j", "java_util", "system_out">>

IsLoggerRecv(recv) ==
    LET r == StrLower(recv) IN EndsWith(r, "log") \/ EndsWith(r, "logger")

IsJulRecv(recv) ==
    LET r == StrLower(recv)
    IN  \E h \in {"logger.global(", "logger.getglobal(", "logger.getlogger(", "logger.getgetlogger("} :
            LET k == IndexOf(r, h, 1)
            IN  k # 0 /\ Len(r) >= k + Len(h) + 1 /\ IndexOf(r, ")", k + Len(h) + 1) = Len(r)
                    /\ CharAt(r, k + Len(h)) # ")"

\* whether log_patterns[framework] matches the call (re.IGNORECASE)
LogPatternMatches(framework, sym) ==
    LET lv == StrLower(ReplaceAll(sym[3], DottedI, "i"))
    IN  CASE framework = "log4j" ->
                IsLoggerRecv(sym[2]) /\ lv \in {"trace", "debug", "info", "warn", "error", "fatal"}
          [] framework = "slf4j" ->
                IsLoggerRecv(sym[2]) /\ lv \in {"trace", "debug", "info", "warn", "error"}
          [] framework = "java_util" ->
                IsJulRecv(sym[2]) /\ lv \in {"severe", "warning", "info", "fine", "finer", "finest"}
          [] framework = "system_out" ->
                EndsWith(StrLower(sym[2]), "system") /\ lv \in {"out", "err"}

\* _normalize_log_level
NormalizeLogLevel(level, framework) ==
    CASE level = "SEVERE" -> "ERROR"
      [] level = "WARNING" -> "WARN"
      [] level = "FINE" -> "DEBUG"
      [] level = "FINER" -> "DEBUG"
      [] level = "FINEST" -> "TRACE"
      [] level = "OUT" -> "INFO"
      [] level = "ERR" -> "ERROR"
      [] OTHER -> level

ExtractLogs(content) ==
    LET calls == SymbolsOf(content, "log")
        of(framework) ==
            LET hit == SelectSeq(calls, LAMBDA sym : LogPatternMatches(framework, sym))
            IN  [k \in 1..Len(hit) |->
                    [framework |-> framework,
                     level |-> NormalizeLogLevel(StrUpper(hit[k][3]), framework),
                     message |-> Strip(hit[k][4])]]
    IN  Flatten([f \in 1..Len(LogFrameworks) |-> of(LogFrameworks[f])])

(***************************************************************************)
(* IntegrationMapper                                                       *)
(***************************************************************************)
RECURSIVE DomainStart(_, _)
\* re.search(r'https?://([^/]+)/?', url): where group 1 starts, or 0
DomainStart(url, i) ==
    IF i > Len(url) THEN 0
    ELSE LET rest == SubSeq(url, i, Len(url))
             after == IF StartsWith(rest, "http://") THEN i + 7
                      ELSE IF StartsWith(rest, "https://") THEN i + 8 ELSE 0
         IN  IF after # 0 /\ after <= Len(url) /\ CharAt(url, after) # "/" THEN after
             ELSE DomainStart(url, i + 1)

\* _extract_service_name_from_url
ExtractServiceNameFromUrl(url) ==
    LET d == DomainStart(url, 1)
    IN  IF d = 0 THEN PyNone
        ELSE LET slash == IndexOf(url, "/", d)
                 domain == ReplaceAll(SubSeq(url, d, IF slash = 0 THEN Len(url) ELSE slash - 1),
                                      "www.", "")
                 parts == Split(domain, ".")
             IN  IF Len(parts) >= 2 THEN parts[Len(parts) - 1] ELSE parts[1]

\* extract_integrations, for the URL literals of the text
ExtractIntegrations(content) ==
    LET urls == SymbolsOf(content, "url")
    IN  [k \in 1..Len(urls) |->
            [type |-> "api_endpoint",
             name |-> ExtractServiceNameFromUrl(urls[k][2]),
             details |-> [url |-> urls[k][2]]]]

(***************************************************************************)
(* VersionAnalyzer.extract_version_constraints                             *)
(***************************************************************************)
VersionPatterns ==
    <<"java_version", "api_version", "since_version", "requires_version", "deprecated">>

ConstraintKey(pattern) ==
    CASE pattern = "deprecated" -> "deprecated"
      [] pattern = "since_version" -> "since"
      [] pattern = "requires_version" -> "requires"
      [] OTHER -> pattern

\* the keys of the returned dict, in insertion order; each value is a
\* VersionConstraint object
ExtractVersionConstraints(content) ==
    LET tags == SymbolsOf(content, "version")
        hit(p) == \E k \in 1..Len(tags) : tags[k][2] = p
        found == SelectSeq(VersionPatterns, hit)
    IN  [k \in 1..Len(found) |-> ConstraintKey(found[k])]

(***************************************************************************)
(* LocalizationProcessor                                                   *)
(***************************************************************************)
\* locale_pattern: two or three small letters, then optionally an underscore
\* and two capitals, between word boundaries
IsLocaleWord(w) ==
    \/ Len(w) \in {2, 3} /\ AllIn(w, LowerChars)
    \/ /\ Len(w) \in {5, 6}
       /\ AllIn(SubSeq(w, 1, Len(w) - 3), LowerChars)
       /\ CharAt(w, Len(w) - 2) = "_"
       /\ AllIn(SubSeq(w, Len(w) - 1, Len(w)), UpperChars)

\* ''.join of the two groups findall returns for one match
LocaleStr(w) == IF Len(w) \in {5, 6} THEN w \o SubSeq(w, Len(w) - 2, Len(w)) ELSE w

ExtractLocalizationsFromCode(content) ==
    LET keys == SymbolsOf(content, "getString")
        \* a word never spans two symbols
        ids == SelectSeq(Flatten([k \in 1..Len(content) |-> Words(TextOf(content[k]), 1)]),
                         IsLocaleWord)
    IN  [k \in 1..Len(keys) |-> [type |-> "translation_key", key |-> keys[k][2], locale |-> ""]]
            \o [k \in 1..Len(ids) |->
                    [type |-> "locale_identifier", key |-> "", locale |-> LocaleStr(ids[k])]]

ExtractLocalizations(content) ==
    LET found == ExtractLocalizationsFromCode(content)
    IN  [k \in 1..Len(found) |->
            IF found[k].type = "translation_key"
            THEN [path |-> found[k].key, locale |-> "unknown", type |-> "key_usage"]
            ELSE [path |-> "runtime", locale |-> found[k].locale, type |-> "locale_definition"]]

(***************************************************************************)
(* The graph (networkx.DiGraph) and the statistics                         *)
(***************************************************************************)
NoAttrs == [a \in {} |-> ""]

InitStats ==
    [total_classes |-> 0, total_interfaces |-> 0, total_enums |-> 0, total_methods |-> 0,
     total_packages |-> {}, total_imports |-> 0, total_dependencies |-> {},
     total_annotations |-> {}, total_api_endpoints |-> 0, total_logging_statements |-> 0,
     files_with_errors |-> 0, total_comments |-> 0, total_configs |-> 0,
     total_integrations |-> 0, total_localizations |-> 0, total_build_scripts |-> 0,
     total_version_constraints |-> 0]

EmptyGraph == [nodes |-> NoAttrs, edges |-> NoAttrs, stats |-> InitStats]

HasNode(g, n) == n \in DOMAIN g.nodes

\* DiGraph.add_node: a new node gets the attributes, an existing one is updated
AddNode(g, n, attrs) ==
    [g EXCEPT !.nodes = IF n \in DOMAIN g.nodes
                        THEN [g.nodes EXCEPT ![n] = attrs @@ @]
                        ELSE (n :> attrs) @@ g.nodes]

\* DiGraph.add_edge: absent end points are created without attributes; one
\* attribute dict per ordered pair, updated when the pair is already connected
AddEdge(g, u, v, relation) ==
    LET withU == IF u \in DOMAIN g.nodes THEN g.nodes ELSE (u :> NoAttrs) @@ g.nodes
        withV == IF v \in DOMAIN withU THEN withU ELSE (v :> NoAttrs) @@ withU
    IN  [g EXCEPT !.nodes = withV,
                  !.edges = (<<u, v>> :> [relation |-> relation]) @@ g.edges]

Bump(g, counter) == [g EXCEPT !.stats[counter] = @ + 1]

Collect(g, counter, x) == [g EXCEPT !.stats[counter] = @ \cup {x}]

(***************************************************************************)
(* JavaCodeKnowledgeGraph._add_* : each takes the graph and returns it     *)
(***************************************************************************)
AddPackageNode(g, file_node, package_name) ==
    LET package_node == "Package: " \o package_name
        g1 == IF ~HasNode(g, package_node)
              THEN Collect(AddNode(g, package_node,
                                   [type |-> "package", name |-> package_name, id |-> package_node]),
                           "total_packages", package_name)
              ELSE g
    IN  AddEdge(g1, package_node, file_node, "CONTAINS_FILE")

\* _add_import_node with the counter moved out of the has_node guard: the
\* slip ReobservationIsIdle has to catch
AddImportNodeCountingSightings(g, file_node, import_name) ==
    LET import_node == "Import: " \o import_name
        g1 == IF ~HasNode(g, import_node)
              THEN AddNode(g, import_node,
                           [type |-> "import", name |-> import_name, id |-> import_node])
              ELSE g
    IN  AddEdge(Bump(g1, "total_imports"), file_node, import_node, "IMPORTS")

AddImportNode(g, file_node, import_name) ==
    LET import_node == "Import: " \o import_name
        g1 == IF ~HasNode(g, import_node)
              THEN Bump(AddNode(g, import_node,
                                [type |-> "import", name |-> import_name, id |-> import_node]),
                        "total_imports")
              ELSE g
    IN  AddEdge(g1, file_node, import_node, "IMPORTS")

ClassTypeCounters ==
    [class |-> "total_classes", interface |-> "total_interfaces", enum |-> "total_enums"]

\* the class_type and the node key _add_class_node derives from its argument
ClassTypeOf(class_type) ==
    LET t == StrLower(Strip(class_type))
    IN  IF t = "elementtype.class" THEN "class" ELSE t

ClassNodeKey(class_type, class_name) == Capitalize(ClassTypeOf(class_type)) \o ": " \o class_name

AddClassNode(g, file_node, class_name, class_type) ==
    LET ct == ClassTypeOf(class_type)
        class_node == ClassNodeKey(class_type, class_name)
        g1 == IF ~HasNode(g, class_node)
              THEN LET added == AddNode(g, class_node,
                                        [type |-> ct, name |-> class_name, id |-> class_node])
                   IN  IF ct \in DOMAIN ClassTypeCounters
                       THEN Bump(added, ClassTypeCounters[ct])
                       ELSE added
              ELSE g
    IN  AddEdge(g1, file_node, class_node, "DEFINES")

MethodAttrs(method_node, method_info) ==
    [type |-> "method",
     name |-> method_info.name,
     id |-> method_node,
     return_type |-> method_info.return_type,
     parameters |-> method_info.parameters,
     annotations |-> method_info.annotations,
     modifiers |-> method_info.modifiers,
     is_constructor |-> method_info.is_constructor]

\* _add_method_node with add_node called on every sighting, which networkx
\* turns into an attribute update: the slip AppendOnly has to catch
AddMethodNodeLastWriterWins(g, class_name, method_info) ==
    LET method_node == "Method: " \o method_info.name
        g0 == AddNode(g, method_node, MethodAttrs(method_node, method_info))
        g1 == IF ~HasNode(g, method_node) THEN Bump(g0, "total_methods") ELSE g0
        class_node == "Class: " \o class_name
    IN  IF HasNode(g1, class_node)
        THEN AddEdge(g1, class_node, method_node, "HAS_METHOD")
        ELSE g1

AddMethodNode(g, class_name, method_info) ==
    LET method_node == "Method: " \o method_info.name
        g1 == IF ~HasNode(g, method_node)
              THEN Bump(AddNode(g, method_node, MethodAttrs(method_node, method_info)),
                        "total_methods")
              ELSE g
        class_node == "Class: " \o class_name
    IN  IF HasNode(g1, class_node)
        THEN AddEdge(g1, class_node, method_node, "HAS_METHOD")
        ELSE g1

AddAnnotationNode(g, file_node, annotation) ==
    LET annotation_node == "Annotation: " \o annotation
        g1 == IF ~HasNode(g, annotation_node)
              THEN LET added == AddNode(g, annotation_node,
                                        [type |-> "annotation", name |-> annotation,
                                         id |-> annotation_node])
                   IN  IF annotation \notin g.stats.total_annotations
                       THEN Collect(added, "total_annotations", annotation)
                       ELSE added
              ELSE g
    IN  AddEdge(g1, file_node, annotation_node, "ANNOTATED_WITH")

AddCommentNode(g, file_node, comment) ==
    LET comment_node == "Comment: " \o ToString(comment.line_number) \o "_" \o PyHash(comment.content)
        g1 == IF ~HasNode(g, comment_node)
              THEN Bump(AddNode(g, comment_node,
                                [type |-> "comment",
                                 comment_type |-> comment.type,
                                 content |-> comment.content,
                                 line_number |-> comment.line_number,
                                 associated_element |-> comment.associated_element,
                                 tags |-> comment.tags,
                                 id |-> comment_node]),
                        "total_comments")
              ELSE g
    IN  AddEdge(g1, file_node, comment_node, "HAS_COMMENT")

AddLogStatementNode(g, file_node, log_info) ==
    LET log_node == "Log: " \o PyHash(log_info.message)
        g1 == IF ~HasNode(g, log_node)
              THEN Bump(AddNode(g, log_node,
                                [type |-> "log_statement", level |-> log_info.level,
                                 message |-> log_info.message, id |-> log_node]),
                        "total_logging_statements")
              ELSE g
    IN  AddEdge(g1, file_node, log_node, "USES")

AddIntegrationNode(g, file_node, integration) ==
    LET integration_name == integration.name
        integration_node == "Integration: " \o Fmt(integration_name)
        g1 == IF ~HasNode(g, integration_node)
              THEN Bump(AddNode(g, integration_node,
                                [type |-> "api_integration", name |-> integration_name,
                                 url |-> IF "url" \in DOMAIN integration THEN integration.url ELSE "",
                                 id |-> integration_node]),
                        "total_integrations")
              ELSE g
    IN  AddEdge(g1, file_node, integration_node, "INTEGRATES_WITH")

RECURSIVE AddVersionInfo(_, _, _)
\* the loop over version_info.items(); a value is a VersionConstraint, which
\* has no get(), so building the attributes of a new node raises AttributeError
AddVersionInfo(g, file_node, version_info) ==
    IF version_info = <<>> THEN [g |-> g, raised |-> FALSE]
    ELSE LET version_node == "Version: " \o Head(version_info)
         IN  IF ~HasNode(g, version_node)
             THEN [g |-> g, raised |-> TRUE]
             ELSE AddVersionInfo(AddEdge(g, file_node, version_node, "HAS_VERSION"),
                                 file_node, Tail(version_info))

AddLocalizationUsageNode(g, file_node, localization) ==
    LET localization_path == localization.path
        locale == localization.locale
        localization_node == "i18n: " \o SplitExtRoot(BaseName(localization_path))
        g1 == IF ~HasNode(g, localization_node)
              THEN Bump(AddNode(g, localization_node,
                                [type |-> "localization", path |-> localization_path,
                                 locale |-> locale, id |-> localization_node]),
                        "total_localizations")
              ELSE g
    IN  AddEdge(g1, file_node, localization_node, "USES")

AddDependencyNode(g, build_node, dep_info) ==
    LET dep_id == Fmt(dep_info.group_id) \o ":" \o Fmt(dep_info.artifact_id)
        dep_node == "Dependency: " \o dep_id
        g1 == IF ~HasNode(g, dep_node)
              THEN Collect(AddNode(g, dep_node,
                                   [type |-> "dependency",
                                    group_id |-> dep_info.group_id,
                                    artifact_id |-> dep_info.artifact_id,
                                    version |-> dep_info.version,
                                    scope |-> dep_info.scope,
                                    id |-> dep_node]),
                           "total_dependencies", dep_id)
              ELSE g
    IN  AddEdge(g1, build_node, dep_node, "DEPENDS_ON")

(***************************************************************************)
(* The calls _process_file_contents makes, in its order                    *)
(***************************************************************************)
Call(fn, arg) == [fn |-> fn, arg |-> arg]

ClassCalls(class_info) ==
    <<Call("_add_class_node",
           [class_name |-> class_info.name,
            class_type |-> Capitalize(ElementTypeStr(class_info.type))])>>
        \o [a \in 1..Len(class_info.annotations) |->
                Call("_add_annotation_node", class_info.annotations[a])]
        \o Flatten([m \in 1..Len(class_info.methods) |->
                <<Call("_add_method_node",
                       [class_name |-> class_info.name, method |-> class_info.methods[m]])>>
                    \o [a \in 1..Len(class_info.methods[m].annotations) |->
                            Call("_add_annotation_node", class_info.methods[m].annotations[a])]])

FileContentsCalls(content) ==
    LET package_name == ExtractPackage(content)
        imports == ExtractImports(content)
        classes == ExtractClasses(content)
        comments == ExtractComments(content)
        logging_statements == ExtractLogs(content)
        integrations == ExtractIntegrations(content)
        version_info == ExtractVersionConstraints(content)
        localizations == ExtractLocalizations(content)
    IN  (IF package_name # PyNone THEN <<Call("_add_package_node", package_name)>> ELSE <<>>)
            \o [k \in 1..Len(imports) |-> Call("_add_import_node", imports[k])]
            \o Flatten([k \in 1..Len(classes) |-> ClassCalls(classes[k])])
            \o [k \in 1..Len(comments) |-> Call("_add_comment_node", comments[k])]
            \o [k \in 1..Len(logging_statements) |-> Call("_add_log_statement_node", logging_statements[k])]
            \o [k \in 1..Len(integrations) |-> Call("_add_integration_node", integrations[k])]
            \o (IF version_info # <<>> THEN <<Call("_add_version_info", version_info)>> ELSE <<>>)
            \o [k \in 1..Len(localizations) |-> Call("_add_localization_usage_node", localizations[k])]

\* one call applied to the graph, for the context node ctx (the file node, or
\* the build node for a dependency)
ApplyCall(g, ctx, call) ==
    LET ok(h) == [g |-> h, raised |-> FALSE]
    IN  CASE call.fn = "_add_package_node" -> ok(AddPackageNode(g, ctx, call.arg))
          [] call.fn = "_add_import_node" -> ok(AddImportNode(g, ctx, call.arg))
          [] call.fn = "_add_class_node" ->
                ok(AddClassNode(g, ctx, call.arg.class_name, call.arg.class_type))
          [] call.fn = "_add_annotation_node" -> ok(AddAnnotationNode(g, ctx, call.arg))
          [] call.fn = "_add_method_node" ->
                ok(AddMethodNode(g, call.arg.class_name, call.arg.method))
          [] call.fn = "_add_comment_node" -> ok(AddCommentNode(g, ctx, call.arg))
          [] call.fn = "_add_log_statement_node" -> ok(AddLogStatementNode(g, ctx, call.arg))
          [] call.fn = "_add_integration_node" -> ok(AddIntegrationNode(g, ctx, call.arg))
          [] call.fn = "_add_version_info" -> AddVersionInfo(g, ctx, call.arg)
          [] call.fn = "_add_localization_usage_node" ->
                ok(AddLocalizationUsageNode(g, ctx, call.arg))
          [] call.fn = "_add_dependency_node" -> ok(AddDependencyNode(g, ctx, call.arg))

(***************************************************************************)
(* The directory tree: the files a run may find                            *)
(***************************************************************************)
NoBuild == <<>>

File(readable, parses, content, deps, sections, ftype) ==
    [readable |-> readable, parses |-> parses, content |-> content, deps |-> deps,
     sections |-> sections, ftype |-> ftype]

JavaFile(content) == File(TRUE, TRUE, content, NoBuild, <<>>, "text")

\* one <dependency> element (or Gradle line): a field is PyNone when the
\* descriptor has no such element
Dep(group_id, artifact_id, version, scope) ==
    [group_id |-> group_id, artifact_id |-> artifact_id, version |-> version, scope |-> scope]

FooJava ==
    <<PackageDecl("com.acme"), Txt(" "),
      ClassHead(<<>>, <<"public">>, "class", "Foo"), Ch("{"), Txt(" "),
      MethodHead(<<>>, <<>>, "public", "Foo", <<>>), Ch("{"), Ch("}"), Txt(" "),
      MethodHead(<<>>, <<"public">>, "String", "bar", <<Param("String", "x")>>), Ch("{"),
      Txt(" return x; "), Ch("}"), Txt(" "), Ch("}")>>

OuterJava ==
    <<PackageDecl("com.acme"), Ch("\n"), ImportDecl("java.util.List"), Ch("\n"),
      Ch("/"), Ch("/"), Txt(" TODO split"), Ch("\n"),
      ClassHead(<<"Service">>, <<"public">>, "class", "Outer"), Ch("{"), Ch("\n"),
      MethodHead(<<>>, <<>>, "public", "Outer", <<>>), Ch("{"), Ch("}"), Ch("\n"),
      MethodHead(<<>>, <<>>, "void", "m", <<>>), Ch("{"), Ch("}"), Ch("\n"),
      ClassHead(<<>>, <<>>, "class", "Inner"), Ch("{"), Ch("\n"),
      MethodHead(<<>>, <<>>, "public", "Inner", <<>>), Ch("{"), Ch("}"), Ch("\n"),
      MethodHead(<<"Override">>, <<"public">>, "int", "m", <<Param("int", "n")>>), Ch("{"),
      Txt(" return n; "), Ch("}"), Ch("\n"),
      Ch("}"), Ch("\n"), Ch("}")>>

OtherFooJava ==
    <<PackageDecl("org.other"), Ch("\n"), ImportDecl("java.util.List"), Ch("\n"),
      ClassHead(<<>>, <<>>, "class", "Bar"), Ch("{"), Ch("\n"),
      MethodHead(<<>>, <<>>, "void", "Foo", <<>>), Ch("{"), Ch("}"), Ch("\n"),
      Ch("}"), Ch("\n"),
      ClassHead(<<>>, <<"public">>, "class", "Foo"), Ch("{"), Ch("\n"),
      MethodHead(<<>>, <<"public">>, "void", "bar", <<>>), Ch("{"),
      LogCall("logger", "info", "started"), Txt(";"), Ch("}"), Ch("\n"),
      Ch("}")>>

ShapeJava ==
    <<ClassHead(<<>>, <<"public">>, "interface", "Shape"), Ch("{"), Ch("\n"),
      MethodHead(<<>>, <<>>, "default void", "draw", <<>>), Ch("{"), Ch("}"), Ch("\n"),
      Ch("}"), Ch("\n"),
      ClassHead(<<>>, <<>>, "enum", "Color"), Ch("{"), Txt(" RED; "),
      MethodHead(<<>>, <<>>, "void", "paint", <<>>), Ch("{"),
      Ch("\""), Url("https://api.acme.com/v1"), Ch("\""), Txt(" "), GetString("app.title"),
      Ch("}"), Ch("\n"),
      Ch("}")>>

LegacyJava ==
    <<Ch("/"), Ch("*"), Ch("*"), Txt(" old "), VersionTag("since_version", "@since 1.2", "1.2"),
      Txt(" "), Ch("*"), Ch("/"), Ch("\n"),
      VersionTag("deprecated", "@Deprecated", ""), Txt(" int old;"), Ch("\n"),
      ClassHead(<<>>, <<"public">>, "class", "Legacy"), Ch("{"), Ch("\n"),
      MethodHead(<<>>, <<"public">>, "void", "run", <<>>), Ch("{"),
      LogCall("System", "out", "run"), Txt(";"), Ch("}"), Ch("\n"),
      Ch("}")>>

\* a class whose brace is never closed, with a class after its first method
CutJava ==
    <<ClassHead(<<>>, <<>>, "class", "Cut"), Ch("{"), Ch("\n"),
      MethodHead(<<>>, <<>>, "void", "lost", <<>>), Ch("{"), Ch("}"), Ch("\n"),
      ClassHead(<<>>, <<>>, "class", "After"), Ch("{"), Txt(" "),
      MethodHead(<<>>, <<>>, "void", "kept", <<>>), Ch("{"), Ch("}"), Txt(" "), Ch("}"),
      Ch("\n")>>

Library ==
    [p \in {"app/Foo.java", "Outer.java", "sub/Foo.java", "Shape.java", "Legacy.java",
            "Cut.java", "Broken.java", "pom.xml", "build.gradle", "app.properties",
            "messages_en.properties", "bad.json", "README.md", "notes.txt"} |->
        CASE p = "app/Foo.java" -> JavaFile(FooJava)
          [] p = "Outer.java" -> JavaFile(OuterJava)
          [] p = "sub/Foo.java" -> JavaFile(OtherFooJava)
          [] p = "Shape.java" -> JavaFile(ShapeJava)
          [] p = "Legacy.java" -> JavaFile(LegacyJava)
          [] p = "Cut.java" -> JavaFile(CutJava)
          [] p = "Broken.java" -> File(FALSE, FALSE, <<>>, NoBuild, <<>>, "unknown")
          [] p = "pom.xml" ->
                File(TRUE, TRUE, <<>>,
                     <<Dep("org.acme", "core", PyNone, PyNone),
                       Dep("junit", "junit", "4.13", "test"),
                       Dep("org.acme", "core", "2.0", "runtime")>>, <<>>, "text")
          [] p = "build.gradle" ->
                File(TRUE, TRUE, <<>>, <<Dep("org.acme", "core", "1.0", PyNone)>>, <<>>, "text")
          [] p = "app.properties" -> File(TRUE, TRUE, <<>>, NoBuild, <<>>, "text")
          [] p = "messages_en.properties" -> File(TRUE, TRUE, <<>>, NoBuild, <<>>, "text")
          [] p = "bad.json" -> File(TRUE, FALSE, <<>>, NoBuild, <<>>, "text")
          [] p = "README.md" -> File(TRUE, TRUE, <<>>, NoBuild, <<"Intro", "Setup">>, "text")
          [] p = "notes.txt" -> File(TRUE, TRUE, <<>>, NoBuild, <<>>, "text")]

FileAt(p) == Library[p]

\* the directory the analyser is given, and the path the walk hands a handler
directory == "/repo"

FilePath(p) == directory \o "/" \o p

Trees == {t \in SUBSET DOMAIN Library : Cardinality(t) \in 1..MaxFiles}

ignored_directories ==
    {"target", "bin", "build", ".git", ".idea", ".settings", ".gradle", ".classpath",
     ".project", ".metadata", ".vscode", "__pycache__", ".DS_Store", "out", "logs", "tmp",
     "temp", "test-output", ".mvn", ".svn"}

ignored_files == {".gitignore", ".classpath", ".project", ".DS_Store"}

\* the directories on the way to a file; os.walk does not descend into an
\* ignored directory
DirsOf(p) == LET parts == Split(p, "/") IN {parts[k] : k \in 1..(Len(parts) - 1)}

Walked(p) == DirsOf(p) \cap ignored_directories = {}

\* the directory of a file, with its closing separator ("" at the top)
DirName(p) == SubSeq(p, 1, LastIndexOf(p, "/", Len(p)))

\* the deepest directory holding both files
RECURSIVE CommonDir(_, _, _)
CommonDir(a, b, d) ==
    LET i == IndexOf(a, "/", Len(d) + 1)
    IN  IF i # 0 /\ StartsWith(b, SubSeq(a, 1, i)) THEN CommonDir(a, b, SubSeq(a, 1, i)) ELSE d

\* os.walk is top-down: the files of a directory come before the files of
\* the directories beneath it, and a directory once entered is finished
\* before the walk leaves it; the order inside a listing is the file
\* system's choice
WalkOrder(t, seen, p) ==
    /\ \A q \in t \ seen :
           DirName(q) = DirName(p) \/ ~StartsWith(DirName(p), DirName(q))
    /\ \A q \in t \ seen : \A v \in seen :
           StartsWith(DirName(p), CommonDir(v, q, ""))

\* pathlib's PurePath.suffix
PathSuffix(name) ==
    LET d == LastIndexOf(name, ".", Len(name))
    IN  IF 1 < d /\ d < Len(name) THEN SubSeq(name, d, Len(name)) ELSE ""

(***************************************************************************)
(* The run: _process_codebase and the per-file handlers                    *)
(***************************************************************************)
G == [nodes |-> nodes, edges |-> edges, stats |-> stats]

SetGraph(g) == nodes' = g.nodes /\ edges' = g.edges /\ stats' = g.stats

\* the output file before any run has written it
NoOutput == [written |-> FALSE, nodes |-> NoAttrs, links |-> NoAttrs]

NoCall == [fn |-> "", key |-> "", existed |-> FALSE, differs |-> FALSE]

\* the node a call is about, and the attributes the call would give it
CallKey(ctx, call) ==
    IF call.fn = "_add_version_info" THEN "Version: " \o Head(call.arg)
    ELSE CHOOSE k \in DOMAIN ApplyCall(EmptyGraph, ctx, call).g.nodes : k # ctx

Observed(ctx, call) ==
    LET key == CallKey(ctx, call)
        existed == key \in DOMAIN nodes
    IN  [fn |-> call.fn, key |-> key, existed |-> existed,
         differs |-> existed /\ nodes[key] # ApplyCall(EmptyGraph, ctx, call).g.nodes[key]]

\* hand the calls of one file to the loop that runs them one at a time
Start(ctx, calls) ==
    /\ cur' = IF calls = <<>> THEN NoFile ELSE ctx
    /\ pending' = calls

\* an except clause that would also throw the graph away
FileErrorDiscardingGraph(g) ==
    Bump([g EXCEPT !.nodes = NoAttrs, !.edges = NoAttrs], "files_with_errors")

FileError(g) == Bump(g, "files_with_errors")

\* a handler that would add the File node before it reads the file
ProcessJavaFileNodeBeforeRead(p) ==
    IF p \in analyzed_files
    THEN UNCHANGED <<nodes, edges, stats, files_processed, analyzed_files, cur, pending>>
    ELSE LET file_node == "File: " \o p
             g1 == AddNode(G, file_node,
                           [type |-> "file", path |-> p, encoding |-> "UTF-8",
                            fileType |-> "SOURCE_CODE"])
         IN  /\ files_processed' = files_processed + 1
             /\ IF ~FileAt(p).readable
                THEN /\ SetGraph(FileError(g1))
                     /\ UNCHANGED <<analyzed_files, cur, pending>>
                ELSE /\ analyzed_files' = analyzed_files \cup {p}
                     /\ SetGraph(g1)
                     /\ Start(file_node, FileContentsCalls(FileAt(p).content))

\* _process_java_file
ProcessJavaFile(p) ==
    IF p \in analyzed_files
    THEN UNCHANGED <<nodes, edges, stats, files_processed, analyzed_files, cur, pending>>
    ELSE /\ files_processed' = files_processed + 1
         /\ IF ~FileAt(p).readable
            THEN /\ SetGraph(FileError(G))
                 /\ UNCHANGED <<analyzed_files, cur, pending>>
            ELSE LET file_node == "File: " \o p
                 IN  /\ analyzed_files' = analyzed_files \cup {p}
                     /\ SetGraph(AddNode(G, file_node,
                                         [type |-> "file", path |-> p, encoding |-> "UTF-8",
                                          fileType |-> "SOURCE_CODE"]))
                     /\ Start(file_node, FileContentsCalls(FileAt(p).content))

\* DependencyMapper.extract_maven_dependencies / extract_gradle_dependencies
ExtractMavenDependencies(f) ==
    IF ~(f.readable /\ f.parses) THEN <<>>
    ELSE LET both == SelectSeq(f.deps, LAMBDA d : d.group_id # PyNone /\ d.artifact_id # PyNone)
         IN  [k \in 1..Len(both) |->
                 [group_id |-> both[k].group_id,
                  artifact_id |-> both[k].artifact_id,
                  version |-> both[k].version,
                  scope |-> IF both[k].scope # PyNone THEN both[k].scope ELSE "compile"]]

ExtractGradleDependencies(f) ==
    IF ~f.readable THEN <<>>
    ELSE LET full == SelectSeq(f.deps, LAMBDA d : d.group_id # PyNone /\ d.artifact_id # PyNone
                                                     /\ d.version # PyNone)
         IN  [k \in 1..Len(full) |->
                 [group_id |-> full[k].group_id,
                  artifact_id |-> full[k].artifact_id,
                  version |-> full[k].version,
                  scope |-> "compile"]]

\* _process_build_file
ProcessBuildFile(p) ==
    LET build_type == IF EndsWith(p, "pom.xml") THEN "maven" ELSE "gradle"
        dependencies == IF build_type = "maven" THEN ExtractMavenDependencies(FileAt(p))
                        ELSE ExtractGradleDependencies(FileAt(p))
        build_node == "Build: " \o p
        g1 == IF ~HasNode(G, build_node)
              THEN Bump(AddNode(G, build_node,
                                [type |-> "build_script", path |-> p,
                                 build_tool |-> Capitalize(build_type), id |-> build_node]),
                        "total_build_scripts")
              ELSE G
    IN  /\ SetGraph(g1)
        /\ Start(build_node,
                 [k \in 1..Len(dependencies) |-> Call("_add_dependency_node", dependencies[k])])
        /\ UNCHANGED <<files_processed, analyzed_files>>

\* ConfigFileParser.parse_config_file: the ConfigType value, or PyNone
ParseConfigFile(p) ==
    LET file_type == StrLower(PathSuffix(BaseName(p)))
        f == FileAt(p)
    IN  IF ~f.readable THEN PyNone
        ELSE CASE file_type = ".env" -> ".env"
               [] file_type = ".ini" -> IF f.parses THEN ".ini" ELSE PyNone
               [] file_type = ".properties" -> ".properties"
               [] file_type = ".xml" -> ".xml"
               [] file_type \in {".yml", ".yaml"} -> IF f.parses THEN ".yml" ELSE PyNone
               [] file_type = ".json" -> IF f.parses THEN ".json" ELSE PyNone
               [] OTHER -> PyNone

\* _process_config_file
ProcessConfigFile(p) ==
    LET config_info == ParseConfigFile(p)
        config_node == "Config: " \o p
        file_node == "File: " \o p
        g1 == IF ~HasNode(G, config_node)
              THEN Bump(AddNode(G, config_node,
                                [type |-> "config", path |-> p, environment |-> config_info,
                                 id |-> config_node]),
                        "total_configs")
              ELSE G
    IN  /\ SetGraph(IF config_info # PyNone
                    THEN AddEdge(g1, file_node, config_node, "CONFIGURED_BY")
                    ELSE G)
        /\ UNCHANGED <<files_processed, analyzed_files, cur, pending>>

\* _process_localization_file: LocalizationProcessor has no extract_locale, so
\* the first statement after relpath raises AttributeError
ProcessLocalizationFile(p) ==
    /\ SetGraph(FileError(G))
    /\ UNCHANGED <<files_processed, analyzed_files, cur, pending>>

\* DocumentationAnalyzer._determine_doc_type, for the names the walk hands over
DetermineDocType(name) ==
    LET n == StrLower(name)
    IN  IF StartsWith(n, "readme.md") THEN "readme"
        ELSE IF StartsWith(n, "changelog.md") THEN "changelog"
        ELSE IF StartsWith(n, "contributing.md") THEN "contributing"
        ELSE IF StartsWith(n, "api") /\ IndexOf(n, ".md", 4) # 0 THEN "api_doc"
        ELSE PyNone

\* _process_documentation_file
ProcessDocumentationFile(p) ==
    LET f == FileAt(p)
        doc_node == "Documentation: " \o p
        project_node == "Project: Main"
        g1 == IF ~HasNode(G, doc_node)
              THEN AddNode(G, doc_node,
                           [type |-> "documentation", path |-> FilePath(p),
                            sections |-> f.sections,
                            id |-> doc_node])
              ELSE G
        g2 == IF ~HasNode(g1, project_node)
              THEN AddNode(g1, project_node,
                           [type |-> "project", name |-> "Main Project", id |-> project_node])
              ELSE g1
    IN  /\ SetGraph(IF ~f.readable THEN FileError(G)
                    ELSE IF DetermineDocType(BaseName(p)) # PyNone
                         THEN AddEdge(g2, project_node, doc_node, "HAS_DOCUMENTATION")
                         ELSE G)
        /\ UNCHANGED <<files_processed, analyzed_files, cur, pending>>

\* FileTypeProcessor._determine_purpose
DeterminePurpose(name) ==
    LET n == StrLower(name)
        ends(exts) == \E e \in exts : EndsWith(n, e)
    IN  IF ends({".java", ".kt", ".groovy", ".scala"}) THEN "source_code"
        ELSE IF ends({"pom.xml", "build.gradle", "settings.gradle"}) THEN "build_files"
        ELSE IF ends({".properties", ".yml", ".yaml", ".xml", ".json", ".conf", ".config", ".ini"})
             THEN "config_files"
        ELSE IF ends({".md", ".txt", ".rst", ".adoc"}) THEN "documentation"
        ELSE IF ends({".html", ".css", ".js", ".jsp", ".ftl"}) THEN "web_resources"
        ELSE IF ends({".class", ".jar", ".war", ".ear", ".zip"}) THEN "binary_resources"
        ELSE IF ends({".jpg", ".jpeg", ".png", ".gif", ".svg", ".ico"}) THEN "media_files"
        ELSE "unknown"

\* _process_generic_file; process_file always returns a FileInfo
ProcessGenericFile(p) ==
    LET f == FileAt(p)
        file_node == "File: " \o p
    IN  /\ SetGraph(IF ~HasNode(G, file_node)
                    THEN AddNode(G, file_node,
                                 [type |-> IF f.readable THEN f.ftype ELSE "unknown",
                                  encoding |-> IF f.readable /\ f.ftype \in {"text", "unknown"}
                                               THEN "utf-8" ELSE "UTF-8",
                                  fileType |-> StrLower(PathSuffix(BaseName(p))),
                                  purpose |-> IF f.readable THEN DeterminePurpose(BaseName(p))
                                              ELSE "unknown",
                                  id |-> file_node])
                    ELSE G)
        /\ UNCHANGED <<files_processed, analyzed_files, cur, pending>>

HasSuffixIn(file, exts) == \E e \in exts : EndsWith(file, e)

\* the body of the loop over the files of a directory in _process_codebase
ProcessCodebaseFile(p) ==
    LET file == BaseName(p)
    IN  /\ cur = NoFile
        /\ p \in tree \ visited
        /\ Walked(p)
        /\ WalkOrder(tree, visited, p)
        /\ visited' = visited \cup {p}
        /\ lastcall' = NoCall
        /\ UNCHANGED <<tree, hashseed, output_file, source, pos, scan, interrupted>>
        /\ IF file \in ignored_files
           THEN UNCHANGED <<nodes, edges, stats, files_processed, analyzed_files, cur, pending>>
           ELSE IF EndsWith(file, ".java") THEN ProcessJavaFile(p)
           ELSE IF file \in {"pom.xml", "build.gradle"} THEN ProcessBuildFile(p)
           ELSE IF HasSuffixIn(file, {".ini", ".env", ".yml", ".yaml", ".properties", ".json"})
                THEN ProcessConfigFile(p)
           ELSE IF StartsWith(file, "messages_") /\ EndsWith(file, ".properties")
                THEN ProcessLocalizationFile(p)
           ELSE IF StrLower(file) \in {"readme.md", "api.md", "docs.md"}
                THEN ProcessDocumentationFile(p)
           ELSE ProcessGenericFile(p)

\* the next _add_* call of the file being processed; an exception ends the
\* file: the handler counts it and the walk goes on
AddCall ==
    /\ cur # NoFile
    /\ pending # <<>>
    /\ LET r == ApplyCall(G, cur, Head(pending))
       IN  IF r.raised
           THEN /\ SetGraph(FileError(r.g))
                /\ pending' = <<>>
                /\ cur' = NoFile
           ELSE /\ SetGraph(r.g)
                /\ pending' = Tail(pending)
                /\ cur' = IF Tail(pending) = <<>> THEN NoFile ELSE cur
    /\ lastcall' = Observed(cur, Head(pending))
    /\ UNCHANGED <<files_processed, analyzed_files, tree, visited, hashseed, output_file,
                   source, pos, scan, interrupted>>

Init ==
    /\ nodes = NoAttrs
    /\ edges = NoAttrs
    /\ stats = InitStats
    /\ files_processed = 0
    /\ analyzed_files = {}
    /\ tree \in Trees
    /\ visited = {}
    /\ cur = NoFile
    /\ pending = <<>>
    /\ hashseed \in 0..(HashSeeds - 1)
    /\ output_file = NoOutput
    /\ source = <<>>
    /\ pos = 1
    /\ scan = [st |-> ScanInit, done |-> FALSE]
    /\ lastcall = NoCall
    /\ interrupted = FALSE

Next == (\E p \in DOMAIN Library : ProcessCodebaseFile(p)) \/ AddCall

Spec == Init /\ [][Next]_vars

(***************************************************************************)
(* What a source text declares. Java's block structure, read with string   *)
(* literals and both comment shapes honoured: the declarations the graph   *)
(* is compared with.                                                       *)
(***************************************************************************)
\* a block that is not a class body
NoClass == ""

DeclInit ==
    [stack |-> <<>>, in_string |-> FALSE, in_line |-> FALSE, in_block |-> FALSE,
     classes |-> <<>>, methods |-> <<>>]

Enclosing(stack) == SelectSeq(stack, LAMBDA s : s # NoClass)

RECURSIVE DeclScan(_, _, _)
DeclScan(content, i, st) ==
    IF i > Len(content) THEN st
    ELSE LET sym == content[i]
             after == IF i < Len(content) THEN content[i + 1] ELSE Txt("")
             opens == IsCh(after, "{")
             in_class == st.stack # <<>> /\ st.stack[Len(st.stack)] # NoClass
         IN  IF st.in_line
             THEN DeclScan(content, i + 1, [st EXCEPT !.in_line = ~IsCh(sym, "\n")])
             ELSE IF st.in_block
             THEN IF IsCh(sym, "*") /\ IsCh(after, "/")
                  THEN DeclScan(content, i + 2, [st EXCEPT !.in_block = FALSE])
                  ELSE DeclScan(content, i + 1, st)
             ELSE IF st.in_string
             THEN DeclScan(content, i + 1, [st EXCEPT !.in_string = ~IsCh(sym, "\"")])
             ELSE IF IsCh(sym, "\"")
             THEN DeclScan(content, i + 1, [st EXCEPT !.in_string = TRUE])
             ELSE IF IsCh(sym, "/") /\ IsCh(after, "/")
             THEN DeclScan(content, i + 2, [st EXCEPT !.in_line = TRUE])
             ELSE IF sym[1] = "url"
             THEN DeclScan(content, i + 1, [st EXCEPT !.in_line = TRUE])
             ELSE IF IsCh(sym, "/") /\ IsCh(after, "*")
             THEN DeclScan(content, i + 2, [st EXCEPT !.in_block = TRUE])
             ELSE IF sym[1] = "classhead" /\ opens
             THEN DeclScan(content, i + 2,
                           [st EXCEPT !.stack = Append(@, sym[5]),
                                      !.classes = Append(@, [chain |-> Enclosing(st.stack) \o <<sym[5]>>,
                                                             kind |-> sym[4]])])
             ELSE IF sym[1] = "methodhead" /\ opens /\ in_class
             THEN DeclScan(content, i + 2,
                           [st EXCEPT !.stack = Append(@, NoClass),
                                      !.methods = Append(@, [chain |-> Enclosing(st.stack),
                                                             name |-> sym[5],
                                                             return_type |-> sym[4],
                                                             parameters |-> sym[6]])])
             ELSE IF IsCh(sym, "{")
             THEN DeclScan(content, i + 1, [st EXCEPT !.stack = Append(@, NoClass)])
             ELSE IF IsCh(sym, "}") /\ st.stack # <<>>
             THEN DeclScan(content, i + 1, [st EXCEPT !.stack = SubSeq(@, 1, Len(@) - 1)])
             ELSE DeclScan(content, i + 1, st)

Range(seq) == {seq[k] : k \in 1..Len(seq)}

\* the classes, interfaces and enums a file declares, each with the chain of
\* class names from the outermost one down to its own
DeclaredClasses(p) == Range(DeclScan(FileAt(p).content, 1, DeclInit).classes)

\* the methods a file declares, each with the chain of its enclosing classes
DeclaredMethods(p) == Range(DeclScan(FileAt(p).content, 1, DeclInit).methods)

Last(seq) == seq[Len(seq)]

(***************************************************************************)
(* Reading the graph                                                       *)
(***************************************************************************)
NodeType(k) == IF "type" \in DOMAIN nodes[k] THEN nodes[k].type ELSE PyNone

NodesOfType(types) == {k \in DOMAIN nodes : NodeType(k) \in types}

\* the type a node made for a class, interface or enum declaration carries:
\* the keyword, or the printed form of the ElementType member
TypesOfKind(kw) == {kw, StrLower(ElementTypeStr(StrUpper(kw)))}

DeclarationTypes == UNION {TypesOfKind(kw) : kw \in {"class", "interface", "enum"}}

Inbound(k, relation) ==
    {e \in DOMAIN edges : e[2] = k /\ edges[e].relation = relation}

\* the Java files read to the end (or to the error that ended them)
JavaDone == {p \in visited : EndsWith(p, ".java") /\ cur # "File: " \o p}

(***************************************************************************)
(* C1                                                                      *)
(***************************************************************************)
\* C1: each identity key names one node (a node that records its id records
\* its own key), and an _add_* call whose key is already in the graph adds no
\* node and leaves every statistics counter and counter set unchanged
ReobservationIsIdle ==
    [][/\ \A k \in DOMAIN nodes' : "id" \in DOMAIN nodes'[k] => nodes'[k].id = k
       /\ lastcall'.existed => (DOMAIN nodes' = DOMAIN nodes /\ stats' = stats)]_vars

\* an import or a class has just been sighted for the second time
ReobservationSeen ==
    /\ lastcall.existed
    /\ lastcall.fn \in {"_add_import_node", "_add_class_node"}
    /\ lastcall.key \in DOMAIN nodes

(***************************************************************************)
(* C10                                                                     *)
(***************************************************************************)
\* C10: no step removes a node or an edge, and no step changes the attributes
\* of a node or an edge that exists, a later sighting of the same key with
\* other attribute values included
AppendOnly ==
    [][/\ \A k \in DOMAIN nodes : k \in DOMAIN nodes' /\ nodes'[k] = nodes[k]
       /\ \A e \in DOMAIN edges : e \in DOMAIN edges' /\ edges'[e] = edges[e]]_vars

\* a method has just been sighted again with attributes other than the ones
\* its node holds
LaterSightingDiffers ==
    /\ lastcall.differs
    /\ lastcall.fn = "_add_method_node"
    /\ lastcall.key \in DOMAIN nodes

(***************************************************************************)
(* C2                                                                      *)
(***************************************************************************)
\* the counted kinds: the counter of each and the node types of its nodes
CountedKinds ==
    {<<"total_classes", TypesOfKind("class")>>,
     <<"total_interfaces", TypesOfKind("interface")>>,
     <<"total_enums", TypesOfKind("enum")>>,
     <<"total_methods", {"method"}>>,
     <<"total_imports", {"import"}>>,
     <<"total_packages", {"package"}>>,
     <<"total_dependencies", {"dependency"}>>,
     <<"total_annotations", {"annotation"}>>,
     <<"total_comments", {"comment"}>>,
     <<"total_logging_statements", {"log_statement"}>>,
     <<"total_integrations", {"api_integration"}>>,
     <<"total_localizations", {"localization"}>>,
     <<"total_configs", {"config"}>>,
     <<"total_build_scripts", {"build_script"}>>,
     <<"total_version_constraints", {"version"}>>}

CounterSets == {"total_packages", "total_dependencies", "total_annotations"}

CounterValue(counter) ==
    IF counter \in CounterSets THEN Cardinality(stats[counter]) ELSE stats[counter]

KindCounted(kind) == CounterValue(kind[1]) = Cardinality(NodesOfType(kind[2]))

\* C2: at every point of a run the counter of every counted kind (the size
\* of its counter set) equals the number of nodes of that kind in the graph
CountersMatchNodes == \A kind \in CountedKinds : KindCounted(kind)

(***************************************************************************)
(* C3                                                                      *)
(***************************************************************************)
IsFileNode(k) == StartsWith(k, "File: ")

MethodNodes == NodesOfType({"method"})

DeclarationNodes == NodesOfType(DeclarationTypes)

\* C3: between files, every node that is not a File node has an inbound
\* edge from the node that produced it; for a Method node that is a
\* HAS_METHOD edge from the node of a class, interface or enum
EveryFactHasItsProducer ==
    cur = NoFile =>
        \A k \in DOMAIN nodes :
            ~IsFileNode(k) =>
                \E e \in DOMAIN edges :
                    /\ e[2] = k
                    /\ k \in MethodNodes =>
                           edges[e].relation = "HAS_METHOD" /\ e[1] \in DeclarationNodes

(***************************************************************************)
(* C4                                                                      *)
(***************************************************************************)
\* C4: two files that each declare a class with the same name (the same
\* chain of names) yield two class nodes of that name
SameNameClassesStayApart ==
    \A p \in JavaDone : \A q \in JavaDone \ {p} :
        \A c \in DeclaredClasses(p) : \A d \in DeclaredClasses(q) :
            c.chain = d.chain =>
                Cardinality({k \in DeclarationNodes : nodes[k].name = Last(c.chain)}) >= 2

(***************************************************************************)
(* C5                                                                      *)
(***************************************************************************)
\* the node holds what the declaration says
Carries(k, m) ==
    /\ nodes[k].name = m.name
    /\ nodes[k].return_type = m.return_type
    /\ nodes[k].parameters = m.parameters

\* C5: two classes (an outer class and its inner class included) that each
\* declare a method of one name yield two Method nodes, each with the
\* attributes of its own declaration
SameNameMethodsStayApart ==
    \A p \in JavaDone : \A q \in JavaDone :
        \A m1 \in DeclaredMethods(p) : \A m2 \in DeclaredMethods(q) :
            (m1.name = m2.name /\ (p # q \/ m1.chain # m2.chain)) =>
                \E k1 \in MethodNodes : \E k2 \in MethodNodes \ {k1} :
                    Carries(k1, m1) /\ Carries(k2, m2)

(***************************************************************************)
(* C6                                                                      *)
(***************************************************************************)
FooPath == "app/Foo.java"

\* the run over a tree that holds the one file has ended
FooRunDone == tree = {FooPath} /\ visited = tree /\ cur = NoFile

Linked(from, to, relation) ==
    \E u \in from : \E v \in to :
        <<u, v>> \in DOMAIN edges /\ edges[<<u, v>>].relation = relation

FooFiles == {k \in NodesOfType({"file"}) : nodes[k].path = FooPath}
FooPackages == {k \in NodesOfType({"package"}) : nodes[k].name = "com.acme"}
FooClasses == {k \in NodesOfType(TypesOfKind("class")) : nodes[k].name = "Foo"}
FooConstructors == {k \in MethodNodes : nodes[k].name = "Foo" /\ nodes[k].is_constructor}
FooBars ==
    {k \in MethodNodes : /\ nodes[k].name = "bar"
                         /\ nodes[k].return_type = "String"
                         /\ ~nodes[k].is_constructor}
FooParameters ==
    {k \in DOMAIN nodes : /\ NodeType(k) = "parameter" \/ StartsWith(k, "Parameter: ")
                          /\ "name" \in DOMAIN nodes[k]
                          /\ nodes[k].name = "x"}

\* what the example's graph holds apart from the parameter
FooGraphUpToMethods ==
    /\ FooFiles # {} /\ FooPackages # {}
    /\ Linked(FooFiles, FooClasses, "DEFINES")
    /\ Linked(FooClasses, FooConstructors, "HAS_METHOD")
    /\ Linked(FooClasses, FooBars, "HAS_METHOD")

\* C6: the example file yields File, Package com.acme, Class Foo, the
\* constructor Foo, Method bar returning String and Parameter x, with
\* File->Class DEFINES, Class->Method HAS_METHOD twice and
\* bar->x HAS_PARAMETER
FooExampleGraph ==
    FooRunDone => FooGraphUpToMethods /\ Linked(FooBars, FooParameters, "HAS_PARAMETER")

(***************************************************************************)
(* C7                                                                      *)
(***************************************************************************)
RunDone == visited = tree /\ cur = NoFile

\* C7: in the final graph every declared method has a Method node flagged
\* is_constructor exactly when the method's name is the name of the class
\* that directly encloses it, whatever the order of the files
ConstructorsFlagged ==
    RunDone =>
        \A p \in JavaDone : \A m \in DeclaredMethods(p) :
            \E k \in MethodNodes :
                /\ nodes[k].name = m.name
                /\ nodes[k].is_constructor = (m.name = Last(m.chain))

(***************************************************************************)
(* C8                                                                      *)
(***************************************************************************)
ContainmentParents(k) == Inbound(k, "DEFINES") \cup Inbound(k, "HAS_INNER_CLASS")

\* the node at the tail of the edge stands for a class that directly
\* encloses a declaration of the method the node k stands for
FromEnclosingClass(e, k) ==
    /\ e[1] \in DeclarationNodes
    /\ \E p \in visited : \E m \in DeclaredMethods(p) :
           m.name = nodes[k].name /\ Last(m.chain) = nodes[e[1]].name

\* C8: the containment edges form a forest: a class, interface or enum node
\* has at most one containment parent, and a Method node has exactly one
\* inbound HAS_METHOD edge, which comes from the class that directly
\* encloses the method
ContainmentIsAForest ==
    /\ \A k \in DeclarationNodes : Cardinality(ContainmentParents(k)) <= 1
    /\ \A k \in MethodNodes :
           /\ Cardinality(Inbound(k, "HAS_METHOD")) = 1
           /\ \A e \in Inbound(k, "HAS_METHOD") : FromEnclosingClass(e, k)

(***************************************************************************)
(* C9                                                                      *)
(***************************************************************************)
FileNodesOf(p) == {f \in NodesOfType({"file"}) : nodes[f].path = p}

NodesDeclaredAs(c) == {k \in NodesOfType(TypesOfKind(c.kind)) : nodes[k].name = Last(c.chain)}

\* C9: a class, interface or enum declared inside another class's body has
\* its node under the node of the enclosing class, and no DEFINES edge
\* reaches it from the File node
InnerClassesNestUnderTheirClass ==
    \A p \in JavaDone : \A c \in DeclaredClasses(p) :
        Len(c.chain) > 1 =>
            /\ ~Linked(FileNodesOf(p), NodesDeclaredAs(c), "DEFINES")
            /\ \E k \in NodesDeclaredAs(c) : \E e \in DOMAIN edges :
                   /\ e[2] = k
                   /\ e[1] \in DeclarationNodes
                   /\ nodes[e[1]].name = c.chain[Len(c.chain) - 1]

(***************************************************************************)
(* C11: the edge store on its own. graph.add_edge applied to end points    *)
(* and relations drawn from small sets, the relations being the two that   *)
(* the code writes between a File node and an i18n node.                   *)
(***************************************************************************)
\* the links of node_link_data as (source, target, relation) triples
TriplesOf(links) == {<<e[1], e[2], links[e].relation>> : e \in DOMAIN links}

EdgeStoreInit ==
    /\ nodes = NoAttrs
    /\ edges = NoAttrs
    /\ stats = InitStats
    /\ files_processed = 0
    /\ analyzed_files = {}
    /\ tree = {}
    /\ visited = {}
    /\ cur = NoFile
    /\ pending = <<>>
    /\ hashseed = 0
    /\ output_file = NoOutput
    /\ source = <<>>
    /\ pos = 1
    /\ scan = [st |-> ScanInit, done |-> FALSE]
    /\ lastcall = NoCall
    /\ interrupted = FALSE

\* one graph.add_edge(u, v, relation=relation)
InsertEdge ==
    \E u, v \in {"File: messages_en.properties", "i18n: messages_en", "i18n: runtime"} :
    \E relation \in {"USES", "CONTAINS"} :
        /\ SetGraph(AddEdge(G, u, v, relation))
        /\ lastcall' = [fn |-> "add_edge", key |-> <<u, v, relation>>,
                        existed |-> <<u, v>> \in DOMAIN edges,
                        differs |-> /\ <<u, v>> \in DOMAIN edges
                                    /\ edges[<<u, v>>].relation # relation]
        /\ UNCHANGED <<files_processed, analyzed_files, tree, visited, cur, pending,
                       hashseed, output_file, source, pos, scan, interrupted>>

EdgeStoreSpec == EdgeStoreInit /\ [][InsertEdge]_vars

\* C11: the edge store is a set of (source, target, relation) triples: an
\* insertion adds its triple and keeps every triple there was, so a triple
\* already present changes nothing and a second relation between a connected
\* pair stands beside the first
EdgeStoreIsATripleSet ==
    [][lastcall'.fn = "add_edge" => TriplesOf(edges') = TriplesOf(edges) \cup {lastcall'.key}]_vars

(***************************************************************************)
(* C12: the run over the source files of a tree as a function of the order *)
(* in which the walk hands them over                                       *)
(***************************************************************************)
\* _process_file_contents: the calls in turn; an exception ends the file
RECURSIVE ProcessFileContents(_, _, _)
ProcessFileContents(g, file_node, calls) ==
    IF calls = <<>> THEN g
    ELSE LET r == ApplyCall(g, file_node, Head(calls))
         IN  IF r.raised THEN FileError(r.g)
             ELSE ProcessFileContents(r.g, file_node, Tail(calls))

\* _process_java_file on a path not analysed before
JavaFileRun(g, p) ==
    IF ~FileAt(p).readable THEN FileError(g)
    ELSE ProcessFileContents(AddNode(g, "File: " \o p,
                                     [type |-> "file", path |-> p, encoding |-> "UTF-8",
                                      fileType |-> "SOURCE_CODE"]),
                             "File: " \o p, FileContentsCalls(FileAt(p).content))

RECURSIVE JavaRun(_, _)
JavaRun(g, order) ==
    IF order = <<>> THEN g ELSE JavaRun(JavaFileRun(g, Head(order)), Tail(order))

\* the orders in which os.walk may hand over the files of a tree
WalkOrders(t) ==
    {order \in [1..Cardinality(t) -> t] :
        /\ \A i, j \in DOMAIN order : i # j => order[i] # order[j]
        /\ \A i \in DOMAIN order :
               WalkOrder(t, {order[j] : j \in 1..(i - 1)}, order[i])}

SourceFiles(t) == {p \in t : EndsWith(BaseName(p), ".java")}

\* C12: when the run is over a tree of source files, its graph (node keys,
\* node attributes, edges with their relation) is the graph of every order
\* in which the walk could have visited the files
OrderDoesNotMatter ==
    (RunDone /\ tree = SourceFiles(tree)) =>
        \A order \in WalkOrders(tree) :
            LET h == JavaRun(EmptyGraph, order)
            IN  nodes = h.nodes /\ edges = h.edges

(***************************************************************************)
(* C13: a run that saves its graph, and then an independent run over the   *)
(* same tree: a new process, which draws its own hash seed, and a new      *)
(* analyser                                                                *)
(***************************************************************************)
\* save_graph: node_link_data of the graph goes to the output file
SaveGraph == [written |-> TRUE, nodes |-> nodes, links |-> edges]

NewRun ==
    /\ RunDone
    /\ ~output_file.written
    /\ output_file' = SaveGraph
    /\ hashseed' \in 0..(HashSeeds - 1)
    /\ nodes' = NoAttrs
    /\ edges' = NoAttrs
    /\ stats' = InitStats
    /\ files_processed' = 0
    /\ analyzed_files' = {}
    /\ visited' = {}
    /\ lastcall' = NoCall
    /\ UNCHANGED <<tree, cur, pending, source, pos, scan, interrupted>>

TwoRunsSpec == Init /\ [][Next \/ NewRun]_vars

\* C13: an independent second run over the same tree ends with the node keys
\* and the edge triples the first run saved, the keys of Comment and
\* LogStatement nodes included
RunsAgreeOnKeysAndEdges ==
    (RunDone /\ output_file.written) =>
        /\ DOMAIN nodes = DOMAIN output_file.nodes
        /\ TriplesOf(edges) = TriplesOf(output_file.links)

(***************************************************************************)
(* The block scanner on its own: _extract_block_content over texts put     *)
(* together from the characters it reacts to and the openers, closers and  *)
(* escapes of Java's literals and comments, one loop iteration per step    *)
(***************************************************************************)
MaxPieces == 5

\* the texts: up to MaxPieces pieces, each a brace, a quote, an escaped
\* quote, a comment opener or closer, or a newline; and, for deep nesting,
\* up to twice as many pieces that are all braces
ScannerInit ==
    /\ LET pieces == {<<"{">>, <<"}">>, <<"\"">>, <<"'">>, <<"\\", "\"">>, <<"/", "/">>,
                      <<"/", "*">>, <<"*", "/">>, <<"\n">>}
           braces == {<<"{">>, <<"}">>}
       IN  source \in {[k \in DOMAIN Flatten(ps) |-> Ch(Flatten(ps)[k])] :
                          ps \in UNION {[1..n -> pieces] : n \in 1..MaxPieces}
                                    \cup UNION {[1..n -> braces] : n \in 1..(2 * MaxPieces)}}
    /\ pos = 1
    /\ scan = [st |-> ScanInit, done |-> FALSE]
    /\ nodes = NoAttrs
    /\ edges = NoAttrs
    /\ stats = InitStats
    /\ files_processed = 0
    /\ analyzed_files = {}
    /\ tree = {}
    /\ visited = {}
    /\ cur = NoFile
    /\ pending = <<>>
    /\ hashseed = 0
    /\ output_file = NoOutput
    /\ lastcall = NoCall
    /\ interrupted = FALSE

\* one iteration of the loop; the loop ends at the return or at the end of
\* the text
ScanStep ==
    /\ ~scan.done
    /\ pos <= Len(source)
    /\ scan' = ScanChar(source, pos, scan.st)
    /\ pos' = pos + 1
    /\ UNCHANGED <<nodes, edges, stats, files_processed, analyzed_files, tree, visited,
                   cur, pending, hashseed, output_file, lastcall, source,
                   interrupted>>

ScannerSpec == ScannerInit /\ [][ScanStep]_vars

\* Java's lexical structure: what each character of a text belongs to. "code"
\* outside literals and comments, "string" and "char" inside a literal (an
\* escaped character included), "line" and "block" inside a comment, "edge"
\* for the quotes and the comment openers and closers themselves, "eol" for
\* the newline that ends a line comment; a literal
\* that runs into the end of its line is no Java, and from there on the
\* text is "bad".
RECURSIVE JavaLex(_, _, _)
JavaLex(text, i, mode) ==
    IF i > Len(text) THEN <<>>
    ELSE LET c == CharOf(text[i])
             d == IF i < Len(text) THEN CharOf(text[i + 1]) ELSE ""
             one(kind, m) == <<kind>> \o JavaLex(text, i + 1, m)
             two(kind, m) == IF i < Len(text) THEN <<kind, kind>> \o JavaLex(text, i + 2, m)
                             ELSE <<kind>>
         IN  CASE mode = "code" ->
                    IF c = "/" /\ d = "/" THEN two("edge", "line")
                    ELSE IF c = "/" /\ d = "*" THEN two("edge", "block")
                    ELSE IF c = "\"" THEN one("edge", "string")
                    ELSE IF c = "'" THEN one("edge", "char")
                    ELSE one("code", "code")
               [] mode \in {"string", "char"} ->
                    IF c = "\\" THEN two(mode, mode)
                    ELSE IF c = (IF mode = "string" THEN "\"" ELSE "'") THEN one("edge", "code")
                    ELSE IF c = "\n" THEN one("bad", "bad")
                    ELSE one(mode, mode)
               [] mode = "line" ->
                    IF c = "\n" THEN one("eol", "code") ELSE one("line", "line")
               [] mode = "block" ->
                    IF c = "*" /\ d = "/" THEN two("edge", "code") ELSE one("block", "block")
               [] mode = "bad" -> one("bad", "bad")

\* what the character the loop reads next belongs to, and the character
Kind == JavaLex(source, 1, "code")[pos]

Char == CharOf(source[pos])

Braces == {"{", "}"}

Quotes == {"\"", "'"}

StringState(st) == <<st.in_string, st.string_char>>

\* C14: a brace inside a string literal or a character literal, a literal
\* with an escaped quote before the brace included, leaves the nesting depth
\* as it was
LiteralBracesKeepDepth ==
    [][(pos' = pos + 1 /\ Char \in Braces /\ Kind \in {"string", "char"}) =>
           scan'.st.depth = scan.st.depth]_vars


\* C15: a brace or quote between the start of a line comment and the next
\* newline leaves the nesting depth and the string state as they were, and
\* a brace that comes first after that newline is counted
LineCommentsAreInert ==
    [][pos' = pos + 1 =>
           /\ (Kind = "line" /\ Char \in Braces \cup Quotes) =>
                  /\ scan'.st.depth = scan.st.depth
                  /\ StringState(scan'.st) = StringState(scan.st)
           /\ (pos > 1 /\ JavaLex(source, 1, "code")[pos - 1] = "eol" /\ Char \in Braces) =>
                  scan'.st.depth = scan.st.depth + (IF Char = "{" THEN 1 ELSE -1)]_vars

\* C16: a brace or quote inside a block comment leaves the nesting depth and
\* the string state as they were
BlockCommentsAreInert ==
    [][(pos' = pos + 1 /\ Kind = "block" /\ Char \in Braces \cup Quotes) =>
           /\ scan'.st.depth = scan.st.depth
           /\ StringState(scan'.st) = StringState(scan.st)]_vars


(***************************************************************************)
(* C17: a class whose brace never closes                                   *)
(***************************************************************************)
\* the Java files whose handler has read them and finished
FinishedSources == {p \in visited : /\ EndsWith(BaseName(p), ".java")
                                    /\ FileAt(p).readable
                                    /\ cur # "File: " \o p}

ClassKey(class_info) == ClassNodeKey(Capitalize(ElementTypeStr(class_info.type)), class_info.name)

SourceFault ==
    \/ cur # NoFile /\ pending # <<>> /\ ApplyCall(G, cur, Head(pending)).raised
    \/ \E p \in visited' \ visited : EndsWith(BaseName(p), ".java") /\ ~FileAt(p).readable

IsDescriptor(p) ==
    \/ BaseName(p) \in {"pom.xml", "build.gradle"}
    \/ HasSuffixIn(BaseName(p), {".ini", ".env", ".yml", ".yaml", ".properties", ".json"})

\* a source file with a class whose brace never closes
Malformed(p) ==
    /\ EndsWith(BaseName(p), ".java")
    /\ FileAt(p).readable
    /\ LET content == FileAt(p).content
           heads == HeadMatches(content, "classhead")
       IN  \E k \in 1..Len(heads) :
               RunsOff(SubSeq(content, heads[k] + 1, Len(content)), 1, ScanInit)

Unparseable(p) == IsDescriptor(p) /\ FileAt(p).readable /\ ~FileAt(p).parses

HitsError(p) == ~FileAt(p).readable \/ Unparseable(p) \/ Malformed(p)

\* a source file one of whose _add_* calls raises
Raises(p) ==
    /\ EndsWith(BaseName(p), ".java")
    /\ FileAt(p).readable
    /\ ExtractVersionConstraints(FileAt(p).content) # <<>>

\* what the graph holds about a file: the nodes that carry its path, and the
\* edges at them and at its File node
RecordsOf(p) ==
    LET own == {k \in DOMAIN nodes : "path" \in DOMAIN nodes[k] /\ nodes[k].path \in {p, FilePath(p)}}
                   \cup {"File: " \o p}
    IN  (own \cap DOMAIN nodes) \cup {e \in DOMAIN edges : e[1] \in own \/ e[2] \in own}

\* C19: at the end of the run files_with_errors has one count for every file
\* with malformed source, with a descriptor that fails its parse, or that
\* cannot be read (beside the files whose handler raised), and an
\* unparseable descriptor has left no node and no edge
ErrorFilesCountedOnce ==
    RunDone =>
        /\ stats.files_with_errors = Cardinality({p \in tree : HitsError(p) \/ Raises(p)})
        /\ \A p \in tree : Unparseable(p) => RecordsOf(p) = {}


(***************************************************************************)
(* C20: a source file that cannot be read or decoded                       *)
(***************************************************************************)
\* C20: the step that reaches a source file whose read or decoding fails
\* leaves nodes, edges and every kind counter as they were, adds one to
\* files_with_errors, starts none of the file's calls, and leaves the walk
\* able to go on to a next file while files remain
UnreadableSourceIsSkipped ==
    [][\A p \in visited' \ visited :
           (EndsWith(BaseName(p), ".java") /\ ~FileAt(p).readable) =>
               /\ nodes' = nodes
               /\ edges' = edges
               /\ stats' = [stats EXCEPT !.files_with_errors = @ + 1]
               /\ analyzed_files' = analyzed_files
               /\ cur' = NoFile /\ pending' = <<>>
               /\ visited' # tree =>
                      \E q \in tree \ visited' : Walked(q) /\ WalkOrder(tree, visited', q)]_vars

\* the unreadable file was skipped and the file after it was processed
SkippedThenLaterFile ==
    /\ tree = {"Broken.java", "app/Foo.java"}
    /\ RunDone
    /\ stats.files_with_errors = 1
    /\ RecordsOf("Broken.java") = {}
    /\ files_processed = 2
    /\ Linked({"File: app/Foo.java"}, {"Class: Foo"}, "DEFINES")


(***************************************************************************)
(* Cancellation.  __main__ wraps analyze_codebase and save_graph in         *)
(* try/except KeyboardInterrupt.  Nothing below it defers or catches the    *)
(* interrupt: the handlers of _process_codebase catch Exception, and        *)
(* KeyboardInterrupt is not an Exception.  The interrupt is therefore       *)
(* raised wherever the run is, the run ends there with the graph as it is,  *)
(* and save_graph is not called.                                            *)
(***************************************************************************)
Interrupt ==
    /\ ~interrupted
    /\ ~RunDone
    /\ interrupted' = TRUE
    /\ UNCHANGED <<nodes, edges, stats, files_processed, analyzed_files, tree, visited,
                   cur, pending, hashseed, output_file, lastcall, source, pos, scan>>

InterruptSpec == Init /\ [][(~interrupted /\ Next) \/ Interrupt]_vars

\* C21: a user interrupt takes effect only between two files: when the run
\* has been stopped by an interrupt, no file is left with some of its
\* extraction steps applied to the graph and the rest not run.
InterruptOnlyBetweenFiles ==
    interrupted => cur = NoFile /\ pending = <<>>


\* the extraction step of _process_file_contents an _add_* call belongs to:
\* package, imports, classes with their methods, comments, log statements,
\* integrations, version constraints, localization usages
StepOf(call_fn) ==
    CASE call_fn = "_add_package_node" -> 1
      [] call_fn = "_add_import_node" -> 2
      [] call_fn \in {"_add_class_node", "_add_annotation_node", "_add_method_node"} -> 3
      [] call_fn = "_add_comment_node" -> 4
      [] call_fn = "_add_log_statement_node" -> 5
      [] call_fn = "_add_integration_node" -> 6
      [] call_fn = "_add_version_info" -> 7
      [] call_fn = "_add_localization_usage_node" -> 8

\* C22: for every readable source file the eight extraction steps run in
\* the order package, imports, classes, comments, log statements,
\* integrations, version constraints, localization usages, each after the
\* previous one has finished, and all of them are executed: no step of the
\* file is cut short and none is left out.
EightStepsInOrderAndAllRun ==
    [][cur # NoFile /\ StartsWith(cur, "File: ") =>
          /\ ~ApplyCall(G, cur, Head(pending)).raised
          /\ cur' = NoFile => Tail(pending) = <<>>
          /\ cur' # NoFile =>
                /\ pending' = Tail(pending)
                /\ StepOf(Head(pending').fn) >= StepOf(Head(pending).fn)]_vars


(***************************************************************************)
(* One source file holding one statement.  The statement is drawn from      *)
(* logging calls in every spelling of the level keywords and from URL       *)
(* literals; the file goes through _process_java_file and the calls of      *)
(* _process_file_contents.                                                  *)
(***************************************************************************)
StatementInit ==
    /\ LET keywords == {"trace", "debug", "info", "warn", "error", "fatal", "severe",
                        "warning", "fine", "finer", "finest", "out", "err", "print"}
           spellings == UNION {{w, StrUpper(w), Capitalize(w),
                                ReplaceAll(w, "i", DottedI)} : w \in keywords}
           receivers == {"logger", "LOG", "Logger.getLogger(A)", "System"}
           urls == {"http://api.acme.com/v1", "HTTP://api.acme.com/v1", "https://www.acme.com",
                    "http://localhost/x", "https://billing.internal.acme.io/pay"}
       IN  source \in {<<LogCall(recv, level, "\"m\"")>> : recv \in receivers, level \in spellings}
                          \cup {<<Url(u)>> : u \in urls}
    /\ pos = 1
    /\ scan = [st |-> ScanInit, done |-> FALSE]
    /\ nodes = NoAttrs
    /\ edges = NoAttrs
    /\ stats = InitStats
    /\ files_processed = 0
    /\ analyzed_files = {}
    /\ tree = {}
    /\ visited = {}
    /\ cur = NoFile
    /\ pending = <<>>
    /\ hashseed = 0
    /\ output_file = NoOutput
    /\ lastcall = NoCall
    /\ interrupted = FALSE

\* _process_java_file for the file Statement.java, whose text is source
ReadStatement ==
    LET rel_path == "Statement.java"
        file_node == "File: " \o rel_path
    IN  /\ rel_path \notin analyzed_files
        /\ files_processed' = files_processed + 1
        /\ analyzed_files' = analyzed_files \cup {rel_path}
        /\ SetGraph(AddNode(G, file_node,
                            [type |-> "file", path |-> rel_path, encoding |-> "UTF-8",
                             fileType |-> "SOURCE_CODE"]))
        /\ Start(file_node, FileContentsCalls(source))
        /\ lastcall' = NoCall
        /\ UNCHANGED <<tree, visited, hashseed, output_file, source, pos, scan, interrupted>>

StatementSpec == StatementInit /\ [][ReadStatement \/ AddCall]_vars

\* the shared enumeration LogLevel
LogLevels == {"TRACE", "DEBUG", "INFO", "WARN", "ERROR", "FATAL"}

\* C24: for every logging statement matched by a framework pattern, in any
\* letter case, the level recorded on its node is a member of the
\* enumeration {TRACE, DEBUG, INFO, WARN, ERROR, FATAL}, with SEVERE mapped
\* to ERROR, WARNING to WARN, FINE and FINER to DEBUG and FINEST to TRACE.
RecordedLevelsAreNormalized ==
    \A n \in NodesOfType({"log_statement"}) :
        LET keyword == StrUpper(ReplaceAll(source[1][3], DottedI, "i"))
        IN  /\ nodes[n].level \in LogLevels
            /\ keyword = "SEVERE" => nodes[n].level = "ERROR"
            /\ keyword = "WARNING" => nodes[n].level = "WARN"
            /\ keyword \in {"FINE", "FINER"} => nodes[n].level = "DEBUG"
            /\ keyword = "FINEST" => nodes[n].level = "TRACE"


\* C23: the keyword matched decides the kind of a declaration node: once a
\* source file has been processed, a declaration with keyword interface has
\* a node keyed "Interface: <name>" of type interface, one with keyword enum
\* a node keyed "Enum: <name>" of type enum, and one with keyword class a
\* node keyed "Class: <name>" of type class.
KeywordDecidesKind ==
    \A p \in FinishedSources :
        LET classes == ExtractClasses(FileAt(p).content)
        IN  \A k \in 1..Len(classes) :
                LET keyword == StrLower(classes[k].type)
                    class_node == Capitalize(keyword) \o ": " \o classes[k].name
                IN  /\ class_node \in DOMAIN nodes
                    /\ nodes[class_node].type = keyword


\* C25: when a Maven entry that has a group and an artifact creates its
\* Dependency node, the node's version is the empty string if the entry has
\* no version element, and its scope is "compile" if the entry has no scope
\* element.
MavenDefaultsRecorded ==
    [][/\ cur # NoFile
       /\ StartsWith(cur, "Build: ")
       /\ EndsWith(cur, "pom.xml")
       /\ pending # <<>>
       => LET pom == FileAt(SubSeq(cur, Len("Build: ") + 1, Len(cur)))
              entries == SelectSeq(pom.deps,
                                   LAMBDA d : d.group_id # PyNone /\ d.artifact_id # PyNone)
              entry == entries[Len(entries) - Len(pending) + 1]
              dep_node == "Dependency: " \o entry.group_id \o ":" \o entry.artifact_id
          IN  dep_node \notin DOMAIN nodes =>
                  /\ dep_node \in DOMAIN nodes'
                  /\ entry.version = PyNone => nodes'[dep_node].version = ""
                  /\ entry.scope = PyNone => nodes'[dep_node].scope = "compile"]_vars


\* text without literals or comments that starts at an opening brace
PlainBlockText ==
    /\ source # <<>>
    /\ CharOf(source[1]) = "{"
    /\ \A j \in DOMAIN source : JavaLex(source, 1, "code")[j] = "code"

\* the nesting depth after the first k characters, by counting braces
DepthAfter(k) ==
    Cardinality({j \in 1..k : CharOf(source[j]) = "{"})
        - Cardinality({j \in 1..k : CharOf(source[j]) = "}"})

\* where the nesting depth is back at zero
Closings == {k \in DOMAIN source : DepthAfter(k) = 0}

LocalizationFilesAreLocalized ==
    \A p \in visited :
        (StartsWith(BaseName(p), "messages_") /\ EndsWith(BaseName(p), ".properties")) =>
            /\ "Config: " \o p \notin DOMAIN nodes
            /\ \E n \in NodesOfType({"localization"}) :
                   /\ <<"File: " \o p, n>> \in DOMAIN edges
                   /\ edges[<<"File: " \o p, n>>].relation = "CONTAINS"


\* C28: when the version step runs for a source file whose text holds
\* version constraints, every constraint type has its Version node
\* afterwards (made now, or reused), with a HAS_VERSION edge from the file;
\* total_version_constraints grows by one for each node made; and the file
\* is not counted as an error.
VersionConstraintsAreRecorded ==
    [][(cur # NoFile /\ pending # <<>> /\ Head(pending).fn = "_add_version_info") =>
          LET version_types == Range(Head(pending).arg)
              made == {t \in version_types : "Version: " \o t \notin DOMAIN nodes}
          IN  /\ \A t \in version_types :
                     /\ "Version: " \o t \in DOMAIN nodes'
                     /\ nodes'["Version: " \o t].type = "version"
                     /\ <<cur, "Version: " \o t>> \in DOMAIN edges'
                     /\ edges'[<<cur, "Version: " \o t>>].relation = "HAS_VERSION"
              /\ stats'.total_version_constraints
                     = stats.total_version_constraints + Cardinality(made)
              /\ stats'.files_with_errors = stats.files_with_errors]_vars


\* C29: every node in the graph, at any point of a run, carries a kind (a
\* type attribute) given by the operation that created it; no node exists
\* only because an edge was inserted whose end point was absent.
EveryNodeHasAType ==
    \A n \in DOMAIN nodes : "type" \in DOMAIN nodes[n]


\* C30: an Integration node created from a URL literal of a source file
\* stores that URL in its url attribute, and its name is the service name
\* the integration extractor produced for the record, never a missing value.
IntegrationNodesKeepTheirUrl ==
    \A n \in NodesOfType({"api_integration"}) :
        source[1][1] = "url" =>
            /\ nodes[n].url = source[1][2]
            /\ nodes[n].name = ExtractServiceNameFromUrl(source[1][2])
            /\ nodes[n].name # PyNone

=============================================================================
